---- MODULE Spec2Model ----
(***************************************************************************)
(* A model of neomodel/sync_/match.py: the filter/operator translation,   *)
(* the relationship path resolver, the QueryBuilder (AST, placeholder     *)
(* registry, statement rendering) and the NodeSet query-spec object.      *)
(*                                                                         *)
(* Text is modelled by its lexical structure.  A filter value of type str  *)
(* is a sequence of atoms (characters or fixed multi-character pieces), a  *)
(* rendered statement is a sequence of tokens <<kind, text>> where kind    *)
(* "p" marks a $placeholder and kind "t" any other piece of text.          *)
(* Identifiers and placeholder names are strings built by concatenation    *)
(* as in the source.                                                       *)
(***************************************************************************)
EXTENDS Integers, Sequences, FiniteSets, TLC

VARIABLES
    ns,      \* the NodeSet: its fields
    qb,      \* the QueryBuilder most recently constructed (AST, registry, ...)
    last,    \* the operation last performed: name, inputs, outcome, events
    todo,    \* path resolver runs: the relations still to resolve
    steps    \* number of operations performed so far

vars == <<ns, qb, last, todo, steps>>

(***************************************************************************)
(* Bounds of the model.                                                    *)
(***************************************************************************)
MaxLeaves == 2      \* filter leaves translated in one run of SpecFilter
MaxPaths == 2       \* relationship paths registered in one run of SpecPath
MaxOps == 3         \* operations on the NodeSet in one run of Spec
MaxRows == 2        \* rows the execution collaborator returns

(***************************************************************************)
(* Generic helpers.                                                        *)
(***************************************************************************)
Range(f) == {f[i] : i \in DOMAIN f}

RECURSIVE Concat(_)
Concat(ss) == IF ss = <<>> THEN <<>> ELSE Head(ss) \o Concat(Tail(ss))

\* str.join over token sequences: sep is a token sequence
RECURSIVE Join(_, _)
Join(sep, ss) ==
    IF ss = <<>> THEN <<>>
    ELSE IF Len(ss) = 1 THEN ss[1]
    ELSE ss[1] \o sep \o Join(sep, Tail(ss))

T(s) == <<"t", s>>       \* a piece of statement text
P(name) == <<"p", name>> \* the text "$<name>"

(***************************************************************************)
(* Python values that reach the translator.                                *)
(***************************************************************************)
StrV(s) == [t |-> "str", v |-> s]
IntV(n) == [t |-> "int", v |-> n]
BoolV(b) == [t |-> "bool", v |-> b]
ListV(l) == [t |-> "list", v |-> l]
NoneV == [t |-> "none", v |-> 0]

(***************************************************************************)
(* The object-model collaborator: declared node classes, their properties  *)
(* and relationship definitions.                                           *)
(***************************************************************************)
NodeClasses == {"Customer", "Order", "Item"}

\* cls.__label__
Label(cls) == cls

\* str.lower() on the labels in use
Lower(label) ==
    CASE label = "Customer" -> "customer"
      [] label = "Order" -> "order"
      [] label = "Item" -> "item"
      [] OTHER -> label

\* str(cls), as used in f"{node_class}_{part}"
ClassRepr(cls) == "<class '" \o cls \o "'>"

\* cls.defined_properties(rels=False): name -> kind of property
Properties(cls) ==
    CASE cls = "Customer" ->
            [name |-> "String", age |-> "Integer", tags |-> "Array", nick |-> "Alias"]
      [] cls = "Order" -> [total |-> "Integer", status |-> "String"]
      [] cls = "Item" -> [sku |-> "String"]
      [] cls = "PlacedRel" -> [price |-> "Integer", note |-> "String"]
      [] OTHER -> <<>>

\* AliasProperty.aliased_to()
aliased_to(cls, prop) == IF cls = "Customer" /\ prop = "nick" THEN "name" ELSE prop

\* Property.get_db_property_name(prop): the storage name
get_db_property_name(cls, prop) ==
    IF cls = "Customer" /\ prop = "tags" THEN "labels" ELSE prop

\* cls.defined_properties(rels=True, ...): name -> relationship definition
Relationships(cls) ==
    CASE cls = "Customer" ->
            [orders |-> [node_class |-> "Order", direction |-> "OUTGOING",
                         relation_type |-> "PLACED", model |-> "PlacedRel"],
             friends |-> [node_class |-> "Customer", direction |-> "OUTGOING",
                          relation_type |-> "KNOWS", model |-> "none"]]
      [] cls = "Order" ->
            [items |-> [node_class |-> "Item", direction |-> "OUTGOING",
                        relation_type |-> "CONTAINS", model |-> "none"],
             customer |-> [node_class |-> "Customer", direction |-> "INCOMING",
                           relation_type |-> "PLACED", model |-> "PlacedRel"]]
      [] OTHER -> <<>>

\* str(int) for the integers in use
RECURSIVE Digits(_)
Digits(n) ==
    IF n < 10 THEN <<ToString(n)>> ELSE Digits(n \div 10) \o <<ToString(n % 10)>>

\* Property.deflate(value) for the property kinds in use
RECURSIVE deflate(_, _)
deflate(kind, value) ==
    CASE kind = "String" ->
            IF value.t = "int" THEN StrV(Digits(value.v)) ELSE value
      [] kind = "Array" ->
            IF value.t = "list"
            THEN ListV([i \in DOMAIN value.v |-> deflate("String", value.v[i])])
            ELSE value
      [] OTHER -> value

(***************************************************************************)
(* Operator table and value transforms.                                    *)
(***************************************************************************)
_SPECIAL_OPERATOR_IN == "IN"
_SPECIAL_OPERATOR_ARRAY_IN == "any(x IN {ident}.{prop} WHERE x IN {val})"
_SPECIAL_OPERATOR_INSENSITIVE == "(?i)"
_SPECIAL_OPERATOR_ISNULL == "IS NULL"
_SPECIAL_OPERATOR_ISNOTNULL == "IS NOT NULL"
_SPECIAL_OPERATOR_REGEX == "=~"

_UNARY_OPERATORS == {_SPECIAL_OPERATOR_ISNULL, _SPECIAL_OPERATOR_ISNOTNULL}

_REGEX_INSESITIVE == _SPECIAL_OPERATOR_INSENSITIVE \o "{}"
_REGEX_CONTAINS == ".*{}.*"
_REGEX_STARTSWITH == "{}.*"
_REGEX_ENDSWITH == ".*{}"

_STRING_REGEX_OPERATOR_TABLE ==
    [iexact |-> _REGEX_INSESITIVE,
     contains |-> _REGEX_CONTAINS,
     icontains |-> _SPECIAL_OPERATOR_INSENSITIVE \o _REGEX_CONTAINS,
     startswith |-> _REGEX_STARTSWITH,
     istartswith |-> _SPECIAL_OPERATOR_INSENSITIVE \o _REGEX_STARTSWITH,
     endswith |-> _REGEX_ENDSWITH,
     iendswith |-> _SPECIAL_OPERATOR_INSENSITIVE \o _REGEX_ENDSWITH]

_REGEX_OPERATOR_TABLE ==
    [iregex |-> _REGEX_INSESITIVE] @@ _STRING_REGEX_OPERATOR_TABLE

OPERATOR_TABLE ==
    ("lt" :> "<") @@ ("gt" :> ">") @@ ("lte" :> "<=") @@ ("gte" :> ">=")
    @@ ("ne" :> "<>") @@ ("in" :> _SPECIAL_OPERATOR_IN)
    @@ ("isnull" :> _SPECIAL_OPERATOR_ISNULL)
    @@ ("regex" :> _SPECIAL_OPERATOR_REGEX) @@ ("exact" :> "=")
    @@ _REGEX_OPERATOR_TABLE

\* re.escape: a backslash before every special character
SpecialAtoms == {".", "*", "?", "(", ")", "\\"}

RECURSIVE re_escape(_)
re_escape(s) ==
    IF s = <<>> THEN <<>>
    ELSE (IF Head(s) \in SpecialAtoms THEN <<"\\", Head(s)>> ELSE <<Head(s)>>)
         \o re_escape(Tail(s))

\* str.format of a one-slot template: the text before and after "{}"
format(template, s) ==
    CASE template = "(?i){}" -> <<"(?i)">> \o s
      [] template = ".*{}.*" -> <<".*">> \o s \o <<".*">>
      [] template = "(?i).*{}.*" -> <<"(?i)", ".*">> \o s \o <<".*">>
      [] template = "{}.*" -> s \o <<".*">>
      [] template = "(?i){}.*" -> <<"(?i)">> \o s \o <<".*">>
      [] template = ".*{}" -> <<".*">> \o s
      [] template = "(?i).*{}" -> <<"(?i)", ".*">> \o s
      [] OTHER -> <<template>>

Raise(kind) == [err |-> kind, operator |-> "", value |-> NoneV]
Ok(operator, value) == [err |-> "none", operator |-> operator, value |-> value]

transform_in_operator_to_filter(operator, filter_value, kind) ==
    IF filter_value.t # "list"
    THEN Raise("InvalidFilterValue")
    ELSE IF kind = "Array"
    THEN Ok(_SPECIAL_OPERATOR_ARRAY_IN, deflate(kind, filter_value))
    ELSE Ok(operator,
            ListV([i \in DOMAIN filter_value.v |-> deflate(kind, filter_value.v[i])]))

transform_null_operator_to_filter(filter_value) ==
    IF filter_value.t # "bool"
    THEN Raise("InvalidFilterValue")
    ELSE Ok(IF filter_value.v THEN "IS NULL" ELSE "IS NOT NULL", NoneV)

transform_regex_operator_to_filter(operator, filter_value, kind) ==
    LET deflated_value == deflate(kind, filter_value) IN
    IF deflated_value.t # "str"
    THEN Raise("InvalidFilterValue")
    ELSE LET text == IF operator \in Range(_STRING_REGEX_OPERATOR_TABLE)
                     THEN re_escape(deflated_value.v)
                     ELSE deflated_value.v
         IN Ok(_SPECIAL_OPERATOR_REGEX, StrV(format(operator, text)))

transform_operator_to_filter(operator, filter_value, kind) ==
    IF operator = _SPECIAL_OPERATOR_IN
    THEN transform_in_operator_to_filter(operator, filter_value, kind)
    ELSE IF operator = _SPECIAL_OPERATOR_ISNULL
    THEN transform_null_operator_to_filter(filter_value)
    ELSE IF operator \in Range(_REGEX_OPERATOR_TABLE)
    THEN transform_regex_operator_to_filter(operator, filter_value, kind)
    ELSE Ok(operator, deflate(kind, filter_value))

(***************************************************************************)
(* process_filter_args.  A keyword prop__suffix is given split, as         *)
(* [prop, suffix, val] with an empty suffix when it has no __; kwargs      *)
(* is the sequence of keywords in the order of the Python dict.  The       *)
(* result's output is the Python dict as its sequence of items: a repeated *)
(* key keeps its place and takes the later value.                          *)
(***************************************************************************)
DictSet(d, entry) ==
    IF \E i \in DOMAIN d : d[i].prop = entry.prop
    THEN [i \in DOMAIN d |-> IF d[i].prop = entry.prop THEN entry ELSE d[i]]
    ELSE Append(d, entry)

process_one_filter_arg(cls, kw) ==
    IF kw.suffix # "" /\ kw.suffix \notin DOMAIN OPERATOR_TABLE
    THEN [err |-> "KeyError", prop |-> "", operator |-> "", value |-> NoneV]
    ELSE
    LET operator == IF kw.suffix # "" THEN OPERATOR_TABLE[kw.suffix] ELSE "="
    IN  IF kw.prop \notin DOMAIN Properties(cls)
        THEN [err |-> "UnknownProperty", prop |-> "", operator |-> "", value |-> NoneV]
        ELSE
        LET kind == Properties(cls)[kw.prop]
            prop == IF kind = "Alias" THEN aliased_to(cls, kw.prop) ELSE kw.prop
            r == IF kind = "Alias"
                 THEN Ok(operator, deflate(Properties(cls)[prop], kw.val))
                 ELSE transform_operator_to_filter(operator, kw.val, kind)
        IN [err |-> r.err, prop |-> get_db_property_name(cls, prop),
            operator |-> r.operator, value |-> r.value]

RECURSIVE process_filter_args_from(_, _, _)
process_filter_args_from(cls, kwargs, output) ==
    IF kwargs = <<>> THEN [err |-> "none", output |-> output]
    ELSE LET e == process_one_filter_arg(cls, Head(kwargs)) IN
         IF e.err # "none" THEN [err |-> e.err, output |-> <<>>]
         ELSE process_filter_args_from(cls, Tail(kwargs),
                DictSet(output, [prop |-> e.prop, operator |-> e.operator,
                                 value |-> e.value]))

process_filter_args(cls, kwargs) == process_filter_args_from(cls, kwargs, <<>>)

(***************************************************************************)
(* _rel_helper: the relationship pattern (lhs)-[ident:`type`]->(rhs).      *)
(* lhs and rhs are token sequences; a side is parenthesised unless its     *)
(* last character is already a closing parenthesis.  The relation type is  *)
(* a token of its own: the back quotes that enclose it are left out.       *)
(***************************************************************************)
Paren(x) == IF x # <<>> /\ x[Len(x)] = T(")") THEN x ELSE <<T("(")>> \o x \o <<T(")")>>

_rel_helper(lhs, rhs, ident, relation_type, direction) ==
    LET rel_def == IF relation_type = "None" THEN <<>>
                   ELSE IF relation_type = "*" THEN <<T("[*]")>>
                   ELSE <<T("[")>> \o (IF ident # "" THEN <<T(ident)>> ELSE <<>>)
                        \o <<T(":"), T(relation_type), T("]")>>
        stmt == IF direction = "OUTGOING" THEN <<T("-")>> \o rel_def \o <<T("->")>>
                ELSE IF direction = "INCOMING" THEN <<T("<-")>> \o rel_def \o <<T("-")>>
                ELSE <<T("-")>> \o rel_def \o <<T("-")>>
    IN Paren(lhs) \o stmt \o Paren(rhs)

(***************************************************************************)
(* QueryAST and QueryBuilder.  None is the empty string for a string, the  *)
(* empty sequence for a list or a clause, NoneInt for skip and limit.  err *)
(* is the exception a method of the builder raised, if any.                *)
(***************************************************************************)
NoneInt == [some |-> FALSE, v |-> 0]
Some(n) == [some |-> TRUE, v |-> n]
Truthy(x) == x.some /\ x.v # 0

QueryAST ==
    [match |-> <<>>, optional_match |-> <<>>, where |-> <<>>,
     with_clause |-> <<>>, return_clause |-> "", order_by |-> <<>>,
     skip |-> NoneInt, limit |-> NoneInt, result_class |-> "",
     lookup |-> <<>>, additional_return |-> <<>>, is_count |-> FALSE,
     subgraph |-> <<>>]

\* a QueryBuilder that starts from the registry and the counters of the
\* builder constructed before it
QueryBuilder_reusing(with_subgraph, subquery_context) ==
    [ast |-> QueryAST, query_params |-> <<>>,
     place_holder_registry |-> qb.place_holder_registry,
     ident_count |-> qb.ident_count, node_counters |-> qb.node_counters,
     with_subgraph |-> with_subgraph, subquery_context |-> subquery_context,
     err |-> "none"]

\* QueryBuilder.__init__
QueryBuilder(with_subgraph, subquery_context) ==
    [ast |-> QueryAST, query_params |-> <<>>, place_holder_registry |-> <<>>,
     ident_count |-> 0, node_counters |-> <<>>,
     with_subgraph |-> with_subgraph, subquery_context |-> subquery_context,
     err |-> "none"]

\* create_ident without the increment of _ident_count
create_ident_stuck(b) ==
    [b |-> b, ident |-> "r" \o ToString(b.ident_count + 1)]

\* QueryBuilder.create_ident: the builder after the call, and the identifier
create_ident(b) ==
    [b |-> [b EXCEPT !.ident_count = @ + 1],
     ident |-> "r" \o ToString(b.ident_count + 1)]

\* QueryBuilder._register_place_holder: the builder after the call, and the name
_register_place_holder(b, key) ==
    LET n == IF key \in DOMAIN b.place_holder_registry
             THEN b.place_holder_registry[key] + 1 ELSE 1
    IN [b |-> [b EXCEPT !.place_holder_registry =
                   (key :> n) @@ b.place_holder_registry],
        name |-> key \o "_" \o ToString(n)]

\* QueryBuilder._additional_return
_additional_return(ast, name) ==
    IF name \notin Range(ast.additional_return) /\ name # ast.return_clause
    THEN [ast EXCEPT !.additional_return = Append(@, name)]
    ELSE ast

(***************************************************************************)
(* QueryBuilder.build_traversal_from_path.  A relation is                  *)
(* [path, optional, include_in_return, alias]: path is the split path, and *)
(* alias is empty when the relation has none.  The subgraph dict is kept   *)
(* flat: the sequence of relation names leading to a node -> that node's   *)
(* {target, variable_name, rel_variable_name}; sg is the position of the   *)
(* local variable `subgraph` in it.                                        *)
(***************************************************************************)
IsPrefix(p, q) == Len(p) <= Len(q) /\ SubSeq(q, 1, Len(p)) = p

SubgraphSet(subgraph, at, node) ==
    LET kept == {q \in DOMAIN subgraph : ~IsPrefix(at, q)} IN
    [q \in kept \cup {at} |-> IF q = at THEN node ELSE subgraph[q]]

\* self._node_counters[rel_reference] after the increment
node_counter(b, rel_reference) ==
    IF rel_reference \in DOMAIN b.node_counters
    THEN b.node_counters[rel_reference] + 1 ELSE 1

\* if relation["include_in_return"]: self._additional_return(name)
return_if_included(ast, relation, name) ==
    IF relation.include_in_return THEN _additional_return(ast, name) ELSE ast

\* the branch taken when stmt is empty, on the AST
lhs_return(ast, st, relation, index) ==
    IF st.stmt # <<>> THEN ast
    ELSE IF index = 0 THEN [ast EXCEPT !.return_clause = Lower(Label(st.cls))]
    ELSE return_if_included(ast, relation, Lower(Label(st.cls)))

\* lhs_ident
lhs_of(st, index) ==
    IF st.stmt # <<>> THEN st.stmt
    ELSE IF index = 0 /\ st.b.subquery_context THEN <<T(Lower(Label(st.cls)))>>
    ELSE <<T(Lower(Label(st.cls))), T(":" \o Label(st.cls))>>

\* the entry made in the subgraph for this part
subgraph_entry(ast, st, part, definition, rhs_name, rel_ident) ==
    IF st.b.with_subgraph /\ <<part>> \notin DOMAIN ast.subgraph
    THEN [ast EXCEPT !.subgraph =
            SubgraphSet(@, st.sg \o <<part>>,
                        [target |-> definition.node_class,
                         variable_name |-> rhs_name,
                         rel_variable_name |-> rel_ident])]
    ELSE ast

\* the end of the iteration: the statement, the next class, the descent into
\* the children of the subgraph
hop_end(st, part, definition, rhs_name, b, stmt) ==
    [b |-> [b EXCEPT !.err =
                IF st.b.with_subgraph /\ (st.sg \o <<part>>) \notin DOMAIN b.ast.subgraph
                THEN "KeyError" ELSE "none"],
     stmt |-> stmt, cls |-> definition.node_class,
     sg |-> IF st.b.with_subgraph THEN st.sg \o <<part>> ELSE st.sg,
     rhs_name |-> rhs_name]

\* the iteration from create_ident on
hop_rel(st, relation, index, part, definition, rhs_name, ci) ==
    hop_end(st, part, definition, rhs_name,
            [ci.b EXCEPT !.ast =
                return_if_included(
                    subgraph_entry(@, st, part, definition, rhs_name, ci.ident),
                    relation, ci.ident)],
            _rel_helper(lhs_of(st, index),
                        <<T(rhs_name), T(":" \o Label(definition.node_class))>>,
                        ci.ident, definition.relation_type, definition.direction))

\* the iteration once the right-hand side has its name
hop_named(st, relation, index, part, definition, b, rhs_name) ==
    hop_rel(st, relation, index, part, definition, rhs_name,
            create_ident([b EXCEPT !.ast =
                lhs_return(return_if_included(@, relation, rhs_name),
                           st, relation, index)]))

\* the iteration once the counter of the reference is incremented
hop_counted(st, relation, index, part, definition, rel_reference, count) ==
    hop_named(st, relation, index, part, definition,
              [st.b EXCEPT !.node_counters = (rel_reference :> count) @@ @],
              IF index + 1 = Len(relation.path) /\ relation.alias # ""
              THEN relation.alias
              ELSE Lower(Label(definition.node_class)) \o "_" \o part
                   \o "_" \o ToString(count))

\* one iteration of the loop over the parts of the path
traversal_hop(st, relation, index, part) ==
    IF part \notin DOMAIN Relationships(st.cls)
    THEN [st EXCEPT !.b.err = "UnknownRelationship"]
    ELSE hop_counted(st, relation, index, part, Relationships(st.cls)[part],
                     ClassRepr(Relationships(st.cls)[part].node_class) \o "_" \o part,
                     node_counter(st.b,
                         ClassRepr(Relationships(st.cls)[part].node_class) \o "_" \o part))

RECURSIVE traversal_loop(_, _, _)
traversal_loop(st, relation, index) ==
    IF index >= Len(relation.path) \/ st.b.err # "none" THEN st
    ELSE traversal_loop(traversal_hop(st, relation, index, relation.path[index + 1]),
                        relation, index + 1)

\* the statement appended to match whatever relation.optional says
append_traversal_always_match(b, relation, stmt) ==
    [b EXCEPT !.ast.match = Append(@, stmt)]

\* where the statement of a resolved path is appended
append_traversal(b, relation, stmt) ==
    IF relation.optional
    THEN [b EXCEPT !.ast.optional_match = Append(@, stmt)]
    ELSE [b EXCEPT !.ast.match = Append(@, stmt)]

\* after the loop
traversal_end(st, relation) ==
    IF st.b.err # "none" THEN st.b
    ELSE append_traversal(st.b, relation, st.stmt)

build_traversal_from_path(b, relation, source_class) ==
    traversal_end(traversal_loop([b |-> b, stmt |-> <<>>, cls |-> source_class,
                                  sg |-> <<>>, rhs_name |-> ""], relation, 0),
                  relation)

(***************************************************************************)
(* The boolean filter tree (neomodel.match_q.Q).  A leaf is a keyword      *)
(* [prop, suffix, val]; a node is [connector, negated, children].          *)
(***************************************************************************)
IsQ(x) == "connector" \in DOMAIN x

\* Q(*args, **kwargs): the arguments, then the keywords
Q(args, kwargs) == [connector |-> "AND", negated |-> FALSE, children |-> args \o kwargs]

\* QBase.add(data, conn_type) on a node whose connector is conn_type
QAdd(q, data) ==
    IF ~IsQ(data) /\ data \in {c \in Range(q.children) : ~IsQ(c)} THEN q
    ELSE IF IsQ(data) /\ ~data.negated
            /\ (data.connector = q.connector \/ Len(data.children) = 1)
    THEN [q EXCEPT !.children = @ \o data.children]
    ELSE [q EXCEPT !.children = Append(@, data)]

\* Q.__and__ and Q.__or__
QCombine(a, b, conn) ==
    QAdd(QAdd([connector |-> conn, negated |-> FALSE, children |-> <<>>], a), b)

\* Q.__invert__
QInvert(q) == [QAdd(Q(<<>>, <<>>), q) EXCEPT !.negated = TRUE]

(***************************************************************************)
(* QueryBuilder._parse_q_filters: the builder after the call (placeholders *)
(* registered, parameters bound, err set when a leaf is refused) and the   *)
(* text returned.                                                          *)
(***************************************************************************)
\* the body of the loop over process_filter_args' output for one leaf
parse_leaf_entry(b, ident, e) ==
    IF e.operator \in _UNARY_OPERATORS
    THEN [b |-> b, text |-> <<T(ident \o "." \o e.prop), T(e.operator)>>]
    ELSE LET r == _register_place_holder(b, ident \o "_" \o e.prop)
             statement ==
                 IF e.operator = _SPECIAL_OPERATOR_ARRAY_IN
                 THEN <<T("any(x IN"), T(ident \o "." \o e.prop), T("WHERE x IN"),
                        P(r.name), T(")")>>
                 ELSE <<T(ident \o "." \o e.prop), T(e.operator), P(r.name)>>
         IN [b |-> [r.b EXCEPT !.query_params = (r.name :> e.value) @@ @],
             text |-> statement]

RECURSIVE parse_leaf_entries(_, _, _, _)
parse_leaf_entries(b, ident, output, target) ==
    IF output = <<>> THEN [b |-> b, target |-> target]
    ELSE LET r == parse_leaf_entry(b, ident, Head(output))
         IN parse_leaf_entries(r.b, ident, Tail(output), Append(target, r.text))

\* one leaf child: process_filter_args on the single keyword, then its terms
parse_leaf(b, ident, child, source_class, target) ==
    LET filters == process_filter_args(source_class, <<child>>) IN
    IF filters.err # "none"
    THEN [b |-> [b EXCEPT !.err = filters.err], target |-> target]
    ELSE parse_leaf_entries(b, ident, filters.output, target)

\* the loop of _parse_q_filters over the children of q still to visit, and
\* once they are all visited the text it returns
RECURSIVE parse_q_children(_, _, _, _, _, _)
parse_q_children(b, ident, q, children, source_class, target) ==
    IF b.err # "none" THEN [b |-> b, text |-> <<>>]
    ELSE IF children = <<>>
    THEN [b |-> b,
          text |-> IF q.negated
                   THEN <<T("NOT"), T("(")>> \o Join(<<T(q.connector)>>, target) \o <<T(")")>>
                   ELSE Join(<<T(q.connector)>>, target)]
    ELSE IF IsQ(Head(children))
    THEN LET r == parse_q_children(b, ident, Head(children), Head(children).children,
                                   source_class, <<>>)
         IN parse_q_children(r.b, ident, q, Tail(children), source_class,
                Append(target, IF Head(children).connector = "OR"
                               THEN <<T("(")>> \o r.text \o <<T(")")>>
                               ELSE r.text))
    ELSE LET r == parse_leaf(b, ident, Head(children), source_class, target)
         IN parse_q_children(r.b, ident, q, Tail(children), source_class, r.target)

\* _parse_q_filters that leaves an OR child without its parentheses
RECURSIVE parse_q_children_bare(_, _, _, _, _, _)
parse_q_children_bare(b, ident, q, children, source_class, target) ==
    IF b.err # "none" THEN [b |-> b, text |-> <<>>]
    ELSE IF children = <<>>
    THEN [b |-> b,
          text |-> IF q.negated
                   THEN <<T("NOT"), T("(")>> \o Join(<<T(q.connector)>>, target) \o <<T(")")>>
                   ELSE Join(<<T(q.connector)>>, target)]
    ELSE IF IsQ(Head(children))
    THEN LET r == parse_q_children_bare(b, ident, Head(children), Head(children).children,
                                        source_class, <<>>)
         IN parse_q_children_bare(r.b, ident, q, Tail(children), source_class,
                                  Append(target, r.text))
    ELSE LET r == parse_leaf(b, ident, Head(children), source_class, target)
         IN parse_q_children_bare(r.b, ident, q, Tail(children), source_class, r.target)

_parse_q_filters_bare(b, ident, q, source_class) ==
    parse_q_children_bare(b, ident, q, q.children, source_class, <<>>)

_parse_q_filters(b, ident, q, source_class) ==
    parse_q_children(b, ident, q, q.children, source_class, <<>>)

\* QueryBuilder.build_where_stmt, the branch taken for a NodeSet's q_filters
append_stmts(r) ==
    IF r.b.err # "none" THEN r.b
    ELSE IF r.text # <<>> THEN [r.b EXCEPT !.ast.where = Append(@, r.text)]
    ELSE r.b

build_where_stmt(b, ident, q_filters, source_class) ==
    append_stmts(_parse_q_filters(b, ident, q_filters, source_class))

(***************************************************************************)
(* NodeSet.__init__ for a node class.  must_match and dont_match are the   *)
(* keys of the dicts in insertion order, _extra_results the items of the   *)
(* dict, a _subqueries entry is [text, return_set].  An attribute that the *)
(* constructor does not set (skip, limit, order_by_elements) is None.      *)
(***************************************************************************)
NodeSet(source) ==
    [source |-> source, source_class |-> source,
     q_filters |-> Q(<<>>, <<>>),
     must_match |-> <<>>, dont_match |-> <<>>,
     relations_to_fetch |-> <<>>, _extra_results |-> <<>>, _subqueries |-> <<>>,
     skip |-> NoneInt, limit |-> NoneInt, order_by_elements |-> <<>>]

\* db.get_id_method()
get_id_method == "elementId"

\* QueryBuilder.build_label
build_label(b, ident, cls) ==
    IF b.ast.return_clause = "" /\ ident \notin Range(b.ast.additional_return)
    THEN [b EXCEPT !.ast.match = Append(@, <<T("("), T(ident), T(":" \o Label(cls)), T(")")>>),
                   !.ast.return_clause = ident,
                   !.ast.result_class = cls]
    ELSE b

\* QueryBuilder.build_additional_match
has_stmt(node_set, ident, rel) ==
    LET value == Relationships(node_set.source_class)[rel] IN
    _rel_helper(<<T(ident)>>, <<T(":" \o Label(value.node_class))>>, "",
                value.relation_type, value.direction)

build_additional_match(b, ident, node_set) ==
    [b EXCEPT !.ast.where = @
        \o [i \in DOMAIN node_set.must_match |->
               has_stmt(node_set, ident, node_set.must_match[i])]
        \o [i \in DOMAIN node_set.dont_match |->
               <<T("NOT")>> \o has_stmt(node_set, ident, node_set.dont_match[i])]]

\* QueryBuilder.build_order_by
build_order_by(b, ident, source) ==
    IF "?" \in Range(source.order_by_elements)
    THEN [b EXCEPT !.ast.with_clause = <<T(ident), T(","), T("rand() as r")>>,
                   !.ast.order_by = <<"r">>]
    ELSE [b EXCEPT !.ast.order_by =
              [i \in DOMAIN source.order_by_elements |->
                  ident \o "." \o source.order_by_elements[i]]]

\* QueryBuilder.build_source for a NodeSet whose source is a node class
build_source(b, source) ==
    LET ident == Lower(Label(source.source))
        b1 == build_label(b, ident, source.source)
        b2 == build_additional_match(b1, ident, source)
        b3 == build_order_by(b2, ident, source)
    IN IF source.q_filters.children # <<>>
       THEN build_where_stmt(b3, ident, source.q_filters, source.source_class)
       ELSE b3

(***************************************************************************)
(* Traversal: a relationship followed from a NodeSet.  filters is the list *)
(* of the dicts that match() appended, a dict being the sequence of the    *)
(* items [prop, operator, value] that process_filter_args returned.        *)
(***************************************************************************)
\* Traversal.__init__ for a source that is a NodeSet
Traversal(source, name, definition) ==
    [source |-> source, source_class |-> source.source_class,
     definition |-> definition, target_class |-> definition.node_class,
     name |-> name, filters |-> <<>>]

\* Traversal.match: the traversal after the call, and the exception raised
match(traversal, kwargs) ==
    IF kwargs = <<>> THEN [t |-> traversal, err |-> "none"]
    ELSE IF traversal.definition.model = "none"
    THEN [t |-> traversal, err |-> "ValueError"]
    ELSE LET output == process_filter_args(traversal.definition.model, kwargs) IN
         IF output.err # "none" THEN [t |-> traversal, err |-> output.err]
         ELSE IF output.output # <<>>
         THEN [t |-> [traversal EXCEPT !.filters = Append(@, output.output)],
               err |-> "none"]
         ELSE [t |-> traversal, err |-> "none"]

\* the statement of one item of a row that takes a placeholder whatever its
\* operator is
where_row_entry_registering(b, ident, negate, e) ==
    LET r == _register_place_holder(b, ident \o "_" \o e.prop)
    IN [b |-> [r.b EXCEPT !.query_params = (r.name :> e.value) @@ @],
        text |-> (IF negate THEN <<T("NOT")>> ELSE <<>>)
                 \o <<T(ident \o "." \o e.prop), T(e.operator), P(r.name)>>]

\* QueryBuilder.build_where_stmt, the branch taken for a list of rows: the
\* body of the loop over the items of a row
where_row_entry(b, ident, negate, e) ==
    IF e.operator \in _UNARY_OPERATORS
    THEN [b |-> b,
          text |-> (IF negate THEN <<T("NOT")>> ELSE <<>>)
                   \o <<T(ident \o "." \o e.prop), T(e.operator)>>]
    ELSE LET r == _register_place_holder(b, ident \o "_" \o e.prop)
         IN [b |-> [r.b EXCEPT !.query_params = (r.name :> e.value) @@ @],
             text |-> (IF negate THEN <<T("NOT")>> ELSE <<>>)
                      \o <<T(ident \o "." \o e.prop), T(e.operator), P(r.name)>>]

\* the loop over the rows and their items, then the statements joined and
\* appended; a row that match() made has no "__NOT__" key, negate is False
RECURSIVE where_rows(_, _, _, _)
where_rows(b, ident, entries, stmts) ==
    IF entries = <<>>
    THEN [b EXCEPT !.ast.where = Append(@, Join(<<T("AND")>>, stmts))]
    ELSE where_rows(where_row_entry(b, ident, FALSE, Head(entries)).b, ident,
                    Tail(entries),
                    Append(stmts, where_row_entry(b, ident, FALSE, Head(entries)).text))

\* QueryBuilder.build_traversal for a traversal whose source is a NodeSet on
\* a node class
build_traversal_where(b, traversal, rel_ident) ==
    IF b.err # "none" THEN b
    ELSE IF traversal.filters # <<>>
    THEN where_rows(b, rel_ident, Concat(traversal.filters), <<>>)
    ELSE b

build_traversal_match(b, traversal, rel_ident, lhs_ident, traversal_ident) ==
    IF b.err # "none" THEN b
    ELSE [b EXCEPT !.ast.return_clause = traversal_ident,
                   !.ast.result_class = traversal.target_class,
                   !.ast.match = Append(@,
                       _rel_helper(<<T(lhs_ident)>>,
                                   <<T(traversal_ident),
                                     T(":" \o Label(traversal.target_class))>>,
                                   rel_ident,
                                   traversal.definition.relation_type,
                                   traversal.definition.direction))]

build_traversal(b, traversal) ==
    build_traversal_where(
        build_traversal_match(
            build_source(create_ident(b).b, traversal.source), traversal,
            create_ident(b).ident, Lower(Label(traversal.source.source)),
            traversal.name \o "_" \o create_ident(b).ident),
        traversal, create_ident(b).ident)

\* QueryBuilder.build_ast
RECURSIVE build_traversals(_, _, _)
build_traversals(b, relations, source_class) ==
    IF relations = <<>> \/ b.err # "none" THEN b
    ELSE build_traversals(build_traversal_from_path(b, Head(relations), source_class),
                          Tail(relations), source_class)

\* the rest of build_ast once the relations are resolved: the source
build_ast_source(b, node_set) ==
    IF b.err # "none" THEN b ELSE build_source(b, node_set)

\* the end of build_ast: skip and limit
build_ast_pagination(b, node_set) ==
    IF b.err # "none" THEN b
    ELSE [b EXCEPT !.ast.skip = node_set.skip, !.ast.limit = node_set.limit]

build_ast(b, node_set) ==
    build_ast_pagination(
        build_ast_source(
            build_traversals(b, node_set.relations_to_fetch, node_set.source),
            node_set),
        node_set)

(***************************************************************************)
(* QueryBuilder.build_query.                                               *)
(***************************************************************************)
Remove(seq, x) ==
    IF x \notin Range(seq) THEN seq
    ELSE LET i == CHOOSE k \in DOMAIN seq : seq[k] = x /\ \A j \in 1..(k - 1) : seq[j] # x
         IN SubSeq(seq, 1, i - 1) \o SubSeq(seq, i + 1, Len(seq))

RECURSIVE add_extra_results(_, _)
add_extra_results(returned, extra) ==
    IF extra = <<>> THEN returned
    ELSE add_extra_results(
            Append(Remove(returned, Head(extra).varname),
                   Head(extra).vardef \o " AS " \o Head(extra).varname),
            Tail(extra))

\* the list returned_items of build_query
returned_items(b, node_set) ==
    LET from_sub == Concat([i \in DOMAIN node_set._subqueries |->
                               node_set._subqueries[i].return_set])
        primary == IF b.ast.return_clause # "" /\ ~b.subquery_context
                   THEN <<b.ast.return_clause>> ELSE <<>>
    IN add_extra_results(from_sub \o primary \o b.ast.additional_return,
                         node_set._extra_results)

build_query(b, node_set) ==
    b.ast.lookup
    \o (IF b.ast.match # <<>>
        THEN <<T("MATCH")>> \o Join(<<T("MATCH")>>, b.ast.match) ELSE <<>>)
    \o (IF b.ast.optional_match # <<>>
        THEN <<T("OPTIONAL MATCH")>> \o Join(<<T("OPTIONAL MATCH")>>, b.ast.optional_match)
        ELSE <<>>)
    \o (IF b.ast.where # <<>>
        THEN <<T("WHERE")>> \o Join(<<T("AND")>>, b.ast.where) ELSE <<>>)
    \o (IF b.ast.with_clause # <<>> THEN <<T("WITH")>> \o b.ast.with_clause ELSE <<>>)
    \o Concat([i \in DOMAIN node_set._subqueries |->
                  <<T("CALL {"), T("WITH"), T(b.ast.return_clause)>>
                  \o node_set._subqueries[i].text \o <<T("}")>>])
    \o <<T("RETURN")>>
    \o (LET items == returned_items(b, node_set)
        IN Join(<<T(",")>>, [i \in DOMAIN items |-> <<T(items[i])>>]))
    \o (IF b.ast.order_by # <<>>
        THEN <<T("ORDER BY")>>
             \o Join(<<T(",")>>, [i \in DOMAIN b.ast.order_by |-> <<T(b.ast.order_by[i])>>])
        ELSE <<>>)
    \o (IF Truthy(b.ast.skip) /\ ~b.ast.is_count
        THEN <<T("SKIP"), T(ToString(b.ast.skip.v))>> ELSE <<>>)
    \o (IF Truthy(b.ast.limit) /\ ~b.ast.is_count
        THEN <<T("LIMIT"), T(ToString(b.ast.limit.v))>> ELSE <<>>)

\* QueryBuilder._count up to the call of db.cypher_query: the builder, and
\* the statement and parameters handed over
\* _count that leaves the count-mode flag unset
_count_unflagged(b, node_set) ==
    LET b1 == [b EXCEPT
                 !.ast.with_clause =
                     <<T(b.ast.return_clause)>>
                     \o (IF Truthy(b.ast.skip)
                         THEN <<T("SKIP"), T(ToString(b.ast.skip.v))>> ELSE <<>>)
                     \o (IF Truthy(b.ast.limit)
                         THEN <<T("LIMIT"), T(ToString(b.ast.limit.v))>> ELSE <<>>),
                 !.ast.return_clause = "count(" \o b.ast.return_clause \o ")",
                 !.ast.order_by = <<>>,
                 !.ast.additional_return = <<>>]
    IN [b |-> b1, text |-> build_query(b1, node_set), params |-> b1.query_params]

_count(b, node_set) ==
    LET b1 == [b EXCEPT
                 !.ast.is_count = TRUE,
                 !.ast.with_clause =
                     <<T(b.ast.return_clause)>>
                     \o (IF Truthy(b.ast.skip)
                         THEN <<T("SKIP"), T(ToString(b.ast.skip.v))>> ELSE <<>>)
                     \o (IF Truthy(b.ast.limit)
                         THEN <<T("LIMIT"), T(ToString(b.ast.limit.v))>> ELSE <<>>),
                 !.ast.return_clause = "count(" \o b.ast.return_clause \o ")",
                 !.ast.order_by = <<>>,
                 !.ast.additional_return = <<>>]
    IN [b |-> b1, text |-> build_query(b1, node_set), params |-> b1.query_params]

\* QueryBuilder._contains up to the call of db.cypher_query
_contains(b, node_set, node_element_id) ==
    LET b1 == IF b.ast.return_clause = ""
              THEN [b EXCEPT !.ast.return_clause = b.ast.additional_return[1]]
              ELSE b
        ident == b1.ast.return_clause
        r == _register_place_holder(b1, ident \o "_contains")
        b2 == [r.b EXCEPT
                 !.ast.where = Append(@, <<T(get_id_method \o "(" \o ident \o ")"),
                                           T("="), P(r.name)>>),
                 !.query_params = (r.name :> node_element_id) @@ @]
    IN _count(b2, node_set)

\* QueryBuilder._execute up to the call of db.cypher_query
_execute(b, node_set, lazy) ==
    LET b1 == IF ~lazy THEN b
              ELSE IF b.ast.return_clause # ""
              THEN [b EXCEPT !.ast.return_clause = get_id_method \o "(" \o @ \o ")"]
              ELSE [b EXCEPT !.ast.additional_return =
                       [i \in DOMAIN @ |-> get_id_method \o "(" \o @[i] \o ")"]]
    IN [b |-> b1, text |-> build_query(b1, node_set), params |-> b1.query_params]

(***************************************************************************)
(* The record of an operation: its name, its input, its outcome (none, or  *)
(* the error raised), what it returned, the events of the call in order    *)
(* (run for a call of db.cypher_query, or the error raised) and the        *)
(* statement and parameters of each call of db.cypher_query.  before is    *)
(* history: the calls of the operation just before, when that was the same *)
(* operation with the same input and this one left the NodeSet as it was.  *)
(***************************************************************************)
Op(op, arg, outcome, ret, events, calls) ==
    [op |-> op, arg |-> arg, outcome |-> outcome, ret |-> ret,
     events |-> events, calls |-> calls, before |-> <<>>]

NoOp == Op("init", NoneV, "none", NoneV, <<>>, <<>>)

(***************************************************************************)
(* SpecFilter: filter leaves translated one after the other on one         *)
(* QueryBuilder, as _parse_q_filters does for the leaves of a tree.        *)
(***************************************************************************)
Suffixes == DOMAIN OPERATOR_TABLE

Leaf(prop, suffix, val) == [prop |-> prop, suffix |-> suffix, val |-> val]

TextA == StrV(<<"a", ".">>)
TextB == StrV(<<"b">>)

FilterLeaves ==
    {Leaf("name", s, TextA) : s \in Suffixes \cup {""}}
    \cup {Leaf("name", s, TextB) : s \in {"", "iregex", "icontains"}}
    \cup {Leaf("age", s, IntV(5)) :
            s \in {"", "gte", "in", "isnull", "contains", "iexact", "regex", "iregex"}}
    \cup {Leaf("age", "in", ListV(<<IntV(5), IntV(7)>>)),
          Leaf("age", "isnull", BoolV(TRUE)), Leaf("age", "isnull", BoolV(FALSE)),
          Leaf("name", "isnull", BoolV(TRUE)),
          Leaf("name", "in", ListV(<<TextA, IntV(5)>>)),
          Leaf("tags", "in", ListV(<<TextB>>)), Leaf("tags", "in", TextB),
          Leaf("nick", "", TextB), Leaf("nick", "in", IntV(5)),
          Leaf("bogus", "", IntV(1))}

InitFilter ==
    /\ ns = NodeSet("Customer")
    /\ qb = QueryBuilder(FALSE, FALSE)
    /\ last = NoOp
    /\ todo = <<>>
    /\ steps = 0

TranslateLeaf ==
    /\ steps < MaxLeaves
    /\ qb.err = "none"
    /\ \E leaf \in FilterLeaves :
         LET filters == process_filter_args(ns.source_class, <<leaf>>)
             r == parse_leaf(qb, "customer", leaf, ns.source_class, <<>>)
         IN /\ qb' = r.b
            /\ last' = Op("leaf", leaf, r.b.err, filters.output, <<>>, r.target)
    /\ steps' = steps + 1
    /\ UNCHANGED <<ns, todo>>

NextFilter == TranslateLeaf

SpecFilter == InitFilter /\ [][NextFilter]_vars

(***************************************************************************)
(* SpecPath: the relations registered on a NodeSet resolved one after the  *)
(* other by build_traversal_from_path, as the loop of build_ast does.      *)
(***************************************************************************)
Relation(path, optional, include_in_return, alias) ==
    [path |-> path, optional |-> optional,
     include_in_return |-> include_in_return, alias |-> alias]

Paths ==
    {<<"orders">>, <<"friends">>, <<"orders", "items">>, <<"friends", "friends">>,
     <<"orders", "customer", "orders">>, <<"bogus">>}

\* what fetch_relations registers
FetchRelations == {Relation(p, o, TRUE, "") : p \in Paths, o \in BOOLEAN}

\* what traverse_relations registers
TraverseRelations ==
    {Relation(p, o, FALSE, a) : p \in Paths \ {<<"bogus">>}, o \in BOOLEAN, a \in {"", "al", "al2"}}

\* traverse_relations registers the positional paths, then the aliased ones, and
\* the aliases are the keys of a dict
RelationLists(S) ==
    {rels \in UNION {[1..n -> S] : n \in 1..MaxPaths} :
        \A i, j \in DOMAIN rels :
            (i < j /\ rels[i].alias # "") => rels[j].alias \notin {"", rels[i].alias}}

\* resolve_subgraph, the only caller with with_subgraph set, refuses a NodeSet
\* whose relations come from traverse_relations
InitPath ==
    /\ \E rels \in RelationLists(FetchRelations) \cup RelationLists(TraverseRelations) :
         /\ ns = [NodeSet("Customer") EXCEPT !.relations_to_fetch = rels]
         /\ todo = rels
         /\ \E with_subgraph \in {FALSE, rels[1].include_in_return} :
               qb = QueryBuilder(with_subgraph, FALSE)
    /\ last = NoOp
    /\ steps = 0

ResolvePath ==
    /\ todo # <<>>
    /\ qb.err = "none"
    /\ qb' = build_traversal_from_path(qb, Head(todo), ns.source)
    /\ last' = Op("build_traversal_from_path", Head(todo), qb'.err, NoneV, <<>>, <<>>)
    /\ todo' = Tail(todo)
    /\ steps' = steps + 1
    /\ UNCHANGED ns

NextPath == ResolvePath

SpecPath == InitPath /\ [][NextPath]_vars

(***************************************************************************)
(* The NodeSet operations.  Each is the whole method: it gives the NodeSet *)
(* after the call (ns), the QueryBuilder the call constructed if any (b),  *)
(* the outcome, the value returned, the events and the statements run.     *)
(***************************************************************************)
SelfV == [t |-> "self", v |-> 0]

Done(node_set, b, outcome, ret, events, calls) ==
    [ns |-> node_set, b |-> b, outcome |-> outcome, ret |-> ret,
     events |-> events, calls |-> calls]

\* an operation that constructs no QueryBuilder and runs nothing
Built(node_set, before) == Done(node_set, before, "none", SelfV, <<>>, <<>>)
Refused(node_set, before, err) == Done(node_set, before, err, NoneV, <<err>>, <<>>)

\* db.cypher_query(query, params): one call of the execution collaborator
cypher_query_twice(text, params) ==
    [events |-> <<"run", "run">>,
     calls |-> <<[text |-> text, params |-> params], [text |-> text, params |-> params]>>]

cypher_query(text, params) ==
    [events |-> <<"run">>, calls |-> <<[text |-> text, params |-> params]>>]

\* the rows the collaborator returns: n rows of one value per returned item
Cell(i, j) == [row |-> i, col |-> j]
Rows(n, columns) == [i \in 1..n |-> [j \in 1..columns |-> Cell(i, j)]]

\* the tail of QueryBuilder._execute: what it yields from the rows
yield_results(results) ==
    IF results # <<>> /\ Len(results[1]) = 1
    THEN [i \in DOMAIN results |-> results[i][1]]
    ELSE results

\* filter that forgets the predicates of the calls before it
filter_replacing(node_set, args, kwargs) ==
    IF args # <<>> \/ kwargs # <<>>
    THEN [node_set EXCEPT !.q_filters = Q(<<Q(args, kwargs)>>, <<>>)]
    ELSE node_set

\* NodeSet.filter and NodeSet.exclude
filter(node_set, args, kwargs) ==
    IF args # <<>> \/ kwargs # <<>>
    THEN [node_set EXCEPT !.q_filters =
             Q(<<QCombine(node_set.q_filters, Q(args, kwargs), "AND")>>, <<>>)]
    ELSE node_set

exclude(node_set, args, kwargs) ==
    IF args # <<>> \/ kwargs # <<>>
    THEN [node_set EXCEPT !.q_filters =
             Q(<<QCombine(node_set.q_filters, QInvert(Q(args, kwargs)), "AND")>>, <<>>)]
    ELSE node_set

\* dict.update with one key, on the keys of the dict
KeyAdd(keys, key) == IF key \in Range(keys) THEN keys ELSE Append(keys, key)

\* NodeSet.has(rel=value) with process_has_args
has(node_set, before, rel, value) ==
    IF rel \notin DOMAIN Relationships(node_set.source_class)
    THEN Refused(node_set, before, "UnknownRelationship")
    ELSE IF value.t # "bool"
    THEN Refused(node_set, before, "InvalidFilterSource")
    ELSE IF value.v
    THEN Built([node_set EXCEPT !.must_match = KeyAdd(@, rel)], before)
    ELSE Built([node_set EXCEPT !.dont_match = KeyAdd(@, rel)], before)

\* NodeSet.order_by.  A property -name is given as [name, desc]; the name is
\* <None> for the argument None
\* order_by that drops the descending marker
RECURSIVE order_by_props_asc(_, _, _)
order_by_props_asc(node_set, before, props) ==
    IF props = <<>> THEN Built(node_set, before)
    ELSE LET prop == Head(props) IN
         IF prop.name \notin DOMAIN Properties(node_set.source_class)
         THEN Refused(node_set, before, "UnknownProperty")
         ELSE order_by_props_asc(
                 [node_set EXCEPT !.order_by_elements =
                     Append(@, aliased_to(node_set.source_class, prop.name))],
                 before, Tail(props))

RECURSIVE order_by_props(_, _, _)
order_by_props(node_set, before, props) ==
    IF props = <<>> THEN Built(node_set, before)
    ELSE LET prop == Head(props) IN
         IF prop.name \notin DOMAIN Properties(node_set.source_class)
         THEN Refused(node_set, before, "UnknownProperty")
         ELSE order_by_props(
                 [node_set EXCEPT !.order_by_elements =
                     Append(@, aliased_to(node_set.source_class, prop.name)
                               \o (IF prop.desc THEN " DESC" ELSE ""))],
                 before, Tail(props))

order_by(node_set, before, props) ==
    LET should_remove == Len(props) = 1 /\ props[1].name = "<None>" IN
    IF should_remove THEN Built([node_set EXCEPT !.order_by_elements = <<>>], before)
    ELSE IF \E i \in DOMAIN props : props[i].name = "?"
    THEN Built([node_set EXCEPT !.order_by_elements = Append(@, "?")], before)
    ELSE order_by_props(node_set, before, props)

\* NodeSet.fetch_relations and NodeSet.traverse_relations, given the items
\* _register_relation_to_fetch makes
fetch_relations(node_set, relations) ==
    [node_set EXCEPT !.relations_to_fetch = relations]

traverse_relations(node_set, relations) ==
    [node_set EXCEPT !.relations_to_fetch = relations]

\* NodeSet.annotate with one aggregate: str(vardef) and the name it goes by
annotate(node_set, varname, vardef) ==
    [node_set EXCEPT !._extra_results =
        IF \E i \in DOMAIN @ : @[i].varname = varname
        THEN [i \in DOMAIN @ |-> IF @[i].varname = varname
                                 THEN [varname |-> varname, vardef |-> vardef] ELSE @[i]]
        ELSE Append(@, [varname |-> varname, vardef |-> vardef])]

\* str(Collect(input_name, distinct))
Collect(input_name, distinct) ==
    IF distinct THEN "collect(DISTINCT " \o input_name \o ")"
    ELSE "collect(" \o input_name \o ")"

\* NodeSet.subquery once the builder of the sub-statement has run build_ast.
\* The entry recorded is (text, return_set); params is the parameter table of
\* the sub-statement's builder, which the method leaves behind: it is kept
\* beside the text to tell what each placeholder of the text was registered
\* for, and no operation reads it
subquery_built(node_set, nodeset, return_set, qbuilder) ==
    IF qbuilder.err # "none" THEN Refused(node_set, qbuilder, qbuilder.err)
    ELSE IF \E i \in DOMAIN return_set :
               /\ return_set[i] # qbuilder.ast.return_clause
               /\ return_set[i] \notin Range(qbuilder.ast.additional_return)
               /\ \A k \in DOMAIN nodeset._extra_results :
                      nodeset._extra_results[k].varname # return_set[i]
    THEN Refused(node_set, qbuilder, "InvalidSubStatementBinding")
    ELSE Built([node_set EXCEPT !._subqueries =
                   Append(@, [text |-> build_query(qbuilder, nodeset),
                              return_set |-> return_set,
                              params |-> qbuilder.query_params])],
               qbuilder)

\* NodeSet.subquery
subquery(node_set, nodeset, return_set) ==
    subquery_built(node_set, nodeset, return_set,
                   build_ast(QueryBuilder(FALSE, TRUE), nodeset))

\* BaseSet.__getitem__ with a slice
getitem_slice(node_set, start, stop) ==
    IF Truthy(stop) /\ Truthy(start)
    THEN [node_set EXCEPT !.limit = Some(stop.v - start.v), !.skip = Some(start.v)]
    ELSE IF Truthy(stop) THEN [node_set EXCEPT !.limit = Some(stop.v)]
    ELSE IF Truthy(start) THEN [node_set EXCEPT !.skip = Some(start.v)]
    ELSE node_set

\* db.cypher_query in _execute, and the list of what _execute yields, given
\* the number of rows the collaborator returns
execute_run(x, node_set, n) ==
    Done(node_set, x.b, "none",
         yield_results(Rows(n, Len(returned_items(x.b, node_set)))),
         cypher_query(x.text, x.params).events, cypher_query(x.text, x.params).calls)

\* ast._execute(lazy) on the builder build_ast returned
execute_built(b, node_set, lazy, n) ==
    IF b.err # "none" THEN Refused(node_set, b, b.err)
    ELSE execute_run(_execute(b, node_set, lazy), node_set, n)

\* a fetch: build_ast on a fresh QueryBuilder, then _execute
fetch(node_set, lazy, with_subgraph, n) ==
    execute_built(build_ast(QueryBuilder(with_subgraph, FALSE), node_set),
                  node_set, lazy, n)

\* db.cypher_query in _count, and the count returned, given the count the
\* collaborator returns
count_run(x, node_set, c) ==
    Done(node_set, x.b, "none", IntV(c),
         cypher_query(x.text, x.params).events, cypher_query(x.text, x.params).calls)

\* ast._count() on the builder build_ast returned
count_built(b, node_set, c) ==
    IF b.err # "none" THEN Refused(node_set, b, b.err)
    ELSE count_run(_count(b, node_set), node_set, c)

\* a count: build_ast on a fresh QueryBuilder, then _count
count(node_set, c) ==
    count_built(build_ast(QueryBuilder(FALSE, FALSE), node_set), node_set, c)

\* an exception raised after the fetch r
Raised(r, err) == [r EXCEPT !.outcome = err, !.ret = NoneV, !.events = Append(@, err)]

\* BaseSet.all, BaseSet.__iter__, BaseSet.__len__
all(node_set, lazy, n) == fetch(node_set, lazy, FALSE, n)
__iter__(node_set, n) == fetch(node_set, FALSE, FALSE, n)
__len__(node_set, c) == count(node_set, c)

\* BaseSet.__bool__
bool_result(r, c) ==
    IF r.outcome # "none" THEN r ELSE [r EXCEPT !.ret = BoolV(c > 0)]

__bool__(node_set, c) == bool_result(count(node_set, c), c)

\* ast._contains(obj_element_id) on the builder build_ast returned
contains_built(b, node_set, obj, c) ==
    IF b.err # "none" THEN Refused(node_set, b, b.err)
    ELSE bool_result(count_run(_contains(b, node_set, obj.element_id), node_set, c),
                     c)

\* the two checks of __contains__ made on the result of the query
contains_checked(r, obj) ==
    IF obj.kind # "node" THEN Raised(r, "NotANode")
    ELSE IF ~obj.saved THEN Raised(r, "UnsavedNode")
    ELSE r

\* BaseSet.__contains__ with its checks after the query
contains_checked_late(node_set, before, obj, c) ==
    contains_checked(
        contains_built(build_ast(QueryBuilder(FALSE, FALSE), node_set), node_set, obj, c),
        obj)

\* BaseSet.__contains__.  obj is [kind, saved, element_id]
__contains__(node_set, before, obj, c) ==
    IF obj.kind # "node" THEN Refused(node_set, before, "NotANode")
    ELSE IF ~obj.saved THEN Refused(node_set, before, "UnsavedNode")
    ELSE contains_built(build_ast(QueryBuilder(FALSE, FALSE), node_set),
                        node_set, obj, c)

\* BaseSet.__getitem__ with an integer
getitem_result(r) ==
    IF r.outcome # "none" THEN r
    ELSE IF r.ret = <<>> THEN Raised(r, "IndexError")
    ELSE [r EXCEPT !.ret = r.ret[1]]

getitem_int(node_set, key, n) ==
    getitem_result(fetch([node_set EXCEPT !.skip = Some(key), !.limit = Some(1)],
                         FALSE, FALSE, n))

\* NodeSet._get
set_limit(node_set, limit) ==
    IF limit # 0 THEN [node_set EXCEPT !.limit = Some(limit)] ELSE node_set

_get(node_set, limit, lazy, kwargs, n) ==
    fetch(set_limit(filter(node_set, <<>>, kwargs), limit), lazy, FALSE, n)

\* what get does of the result when it takes two rows for one
get_result_lenient(r) ==
    IF r.outcome # "none" THEN r
    ELSE IF Len(r.ret) > 2 THEN Raised(r, "MultipleNodesReturned")
    ELSE IF r.ret = <<>> THEN Raised(r, "DoesNotExist")
    ELSE [r EXCEPT !.ret = r.ret[1]]

\* NodeSet.get: what it does of the result of _get
get_result(r) ==
    IF r.outcome # "none" THEN r
    ELSE IF Len(r.ret) > 1 THEN Raised(r, "MultipleNodesReturned")
    ELSE IF r.ret = <<>> THEN Raised(r, "DoesNotExist")
    ELSE [r EXCEPT !.ret = r.ret[1]]

get(node_set, lazy, kwargs, n) == get_result(_get(node_set, 2, lazy, kwargs, n))

\* the except clause of get_or_none and of first_or_none
OrNone(r) ==
    IF r.outcome = "DoesNotExist"
    THEN [r EXCEPT !.outcome = "none", !.ret = NoneV, !.events = <<"run">>]
    ELSE r

\* NodeSet.get_or_none
get_or_none(node_set, kwargs, n) == OrNone(get(node_set, FALSE, kwargs, n))

\* NodeSet.first
first_result(r) ==
    IF r.outcome # "none" THEN r
    ELSE IF r.ret # <<>> THEN [r EXCEPT !.ret = r.ret[1]]
    ELSE Raised(r, "DoesNotExist")

first(node_set, kwargs, n) == first_result(_get(node_set, 1, FALSE, kwargs, n))

\* NodeSet.first_or_none
first_or_none(node_set, kwargs, n) == OrNone(first(node_set, kwargs, n))

(***************************************************************************)
(* NodeSet.resolve_subgraph and NodeSet._to_subgraph.  A value of a row is *)
(* [kind, cls, cell]: a node of class cls, a relationship object, None, or *)
(* any other value; cell tells the row and the column it came from.  A     *)
(* dict is the sequence of its items [name, node].  The object a call of   *)
(* _to_subgraph returns is [obj, _relations], _relations the dict the call *)
(* stored on obj.  The columns of a NodeSet's statement hold one node or   *)
(* one relationship each, so the branch of _to_subgraph for a list is not  *)
(* taken.                                                                  *)
(***************************************************************************)
NoneObj == [kind |-> "none", cls |-> "", cell |-> Cell(0, 0)]

\* the column names cypher_query returns for the RETURN clause of build_query
prop_names(b, node_set) ==
    LET from_sub == Concat([i \in DOMAIN node_set._subqueries |->
                               node_set._subqueries[i].return_set])
        primary == IF b.ast.return_clause # "" /\ ~b.subquery_context
                   THEN <<b.ast.return_clause>> ELSE <<>>
        extra == [i \in DOMAIN node_set._extra_results |->
                     node_set._extra_results[i].varname]
    IN SelectSeq(from_sub \o primary \o b.ast.additional_return,
                 LAMBDA name : name \notin Range(extra)) \o extra

\* a hop of the paths fetched is optional: its columns are None in a row
\* where the optional match found nothing
OptionalPath(node_set, p) ==
    \E k \in DOMAIN node_set.relations_to_fetch :
        /\ node_set.relations_to_fetch[k].optional
        /\ IsPrefix(p, node_set.relations_to_fetch[k].path)

\* the value the collaborator returns in a column, resolve_objects being set;
\* absent: the optional matches found nothing in this row
graph_value(b, node_set, name, cell, absent) ==
    IF name = b.ast.return_clause
    THEN [kind |-> "node", cls |-> node_set.source, cell |-> cell]
    ELSE IF \E p \in DOMAIN b.ast.subgraph : b.ast.subgraph[p].variable_name = name
    THEN LET p == CHOOSE q \in DOMAIN b.ast.subgraph : b.ast.subgraph[q].variable_name = name
         IN IF absent /\ OptionalPath(node_set, p) THEN NoneObj
            ELSE [kind |-> "node", cls |-> b.ast.subgraph[p].target, cell |-> cell]
    ELSE IF \E p \in DOMAIN b.ast.subgraph : b.ast.subgraph[p].rel_variable_name = name
    THEN LET p == CHOOSE q \in DOMAIN b.ast.subgraph :
                      b.ast.subgraph[q].rel_variable_name = name
         IN IF absent /\ OptionalPath(node_set, p) THEN NoneObj
            ELSE [kind |-> "rel", cls |-> "", cell |-> cell]
    ELSE [kind |-> "value", cls |-> "", cell |-> cell]

\* _execute(dict_output=True): dict(zip(prop_names, item)) for each row
dict_rows(b, node_set, names, n, absent) ==
    [i \in 1..n |->
        [j \in DOMAIN names |->
            [name |-> names[j],
             node |-> graph_value(b, node_set, names[j], Cell(i, j), i \in absent)]]]

\* "_" not in name, for the name of a column that holds a node: the lowercased
\* labels have no underscore, the names build_traversal_from_path makes have
NoUnderscore(name) == name \in {Lower(Label(cls)) : cls \in NodeClasses}

\* other_nodes[name] = node
ItemSet(d, name, node) ==
    IF \E i \in DOMAIN d : d[i].name = name
    THEN [i \in DOMAIN d |-> IF d[i].name = name THEN [name |-> name, node |-> node] ELSE d[i]]
    ELSE Append(d, [name |-> name, node |-> node])

\* the names of the relations under a place of the subgraph
RECURSIVE SeqOf(_)
SeqOf(S) == IF S = {} THEN <<>> ELSE LET x == CHOOSE y \in S : TRUE IN <<x>> \o SeqOf(S \ {x})

ChildNames(subgraph, at) ==
    SeqOf({p[Len(p)] : p \in {q \in DOMAIN subgraph : Len(q) = Len(at) + 1 /\ IsPrefix(at, q)}})

\* the key a value is stored under without the suffix for a relationship
relation_name_plain(name, node) == name

\* name += "_relationship" when the value is a StructuredRel
relation_name(name, node) ==
    IF node.kind = "rel" THEN name \o "_relationship" ELSE name

\* the two loops of _to_subgraph: names are the relations of the subgraph at
\* `at` still to visit, i the place in other_nodes, name the loop variable of
\* the outer loop as the inner loop has changed it so far
RECURSIVE to_subgraph_loop(_, _, _, _, _, _, _, _)
to_subgraph_loop(root_node, other_nodes, subgraph, at, names, i, name, relations) ==
    IF names = <<>> THEN [obj |-> root_node, _relations |-> relations]
    ELSE IF i > Len(other_nodes)
    THEN to_subgraph_loop(root_node, other_nodes, subgraph, at, Tail(names), 1,
                          IF Len(names) > 1 THEN names[2] ELSE "", relations)
    ELSE IF \/ other_nodes[i].name \notin
                  {subgraph[at \o <<Head(names)>>].variable_name,
                   subgraph[at \o <<Head(names)>>].rel_variable_name}
            \/ other_nodes[i].node.kind = "none"
    THEN to_subgraph_loop(root_node, other_nodes, subgraph, at, names, i + 1, name,
                          relations)
    ELSE to_subgraph_loop(
            root_node, other_nodes, subgraph, at, names, i + 1,
            relation_name(name, other_nodes[i].node),
            (relation_name(name, other_nodes[i].node) :>
                to_subgraph_loop(other_nodes[i].node, other_nodes, subgraph,
                                 at \o <<Head(names)>>,
                                 ChildNames(subgraph, at \o <<Head(names)>>), 1,
                                 IF ChildNames(subgraph, at \o <<Head(names)>>) = <<>> THEN ""
                                 ELSE ChildNames(subgraph, at \o <<Head(names)>>)[1],
                                 <<>>))
            @@ relations)

\* NodeSet._to_subgraph on the whole subgraph
_to_subgraph(root_node, other_nodes, subgraph) ==
    to_subgraph_loop(root_node, other_nodes, subgraph, <<>>, ChildNames(subgraph, <<>>), 1,
                     IF ChildNames(subgraph, <<>>) = <<>> THEN ""
                     ELSE ChildNames(subgraph, <<>>)[1],
                     <<>>)

\* the loop over the items of one row: root_node and other_nodes after it
RECURSIVE row_items(_, _, _)
row_items(acc, node_set, items) ==
    IF items = <<>> THEN acc
    ELSE row_items(
            IF /\ Head(items).node.kind = "node"
               /\ Head(items).node.cls = node_set.source
               /\ NoUnderscore(Head(items).name)
            THEN [acc EXCEPT !.root_node = Head(items).node]
            ELSE [acc EXCEPT !.other_nodes =
                     ItemSet(@, Head(items).name, Head(items).node)],
            node_set, Tail(items))

\* results.append(self._to_subgraph(root_node, other_nodes, subgraph)), which
\* raises AttributeError on root_node._relations when root_node is None
resolve_row(acc, subgraph) ==
    IF acc.root_node.kind = "none" THEN [acc EXCEPT !.err = "AttributeError"]
    ELSE [acc EXCEPT !.results =
             Append(@, _to_subgraph(acc.root_node, acc.other_nodes, subgraph))]

\* what resolve_subgraph returns or raises
resolve_done(r, acc) ==
    IF acc.err # "none" THEN Raised(r, acc.err) ELSE [r EXCEPT !.ret = acc.results]

\* the loop over the rows: root_node and other_nodes are set before the loop
\* and kept from one row to the next
RECURSIVE resolve_rows(_, _, _, _)
resolve_rows(acc, node_set, subgraph, rows) ==
    IF rows = <<>> \/ acc.err # "none" THEN acc
    ELSE resolve_rows(
            resolve_row(row_items(acc, node_set, Head(rows)), subgraph),
            node_set, subgraph, Tail(rows))

\* NodeSet.resolve_subgraph once the statement has run
resolve_result(r, node_set, n, absent) ==
    IF r.outcome # "none" THEN r
    ELSE resolve_done(r, resolve_rows([root_node |-> NoneObj, other_nodes |-> <<>>,
                                       results |-> <<>>, err |-> "none"],
                                      node_set, r.b.ast.subgraph,
                                      dict_rows(r.b, node_set, prop_names(r.b, node_set),
                                                n, absent)))

resolve_subgraph(node_set, before, n, absent) ==
    IF node_set.relations_to_fetch = <<>>
    THEN Refused(node_set, before, "NothingToResolve")
    ELSE IF ~node_set.relations_to_fetch[1].include_in_return
    THEN Refused(node_set, before, "UnsupportedSubgraphShape")
    ELSE resolve_result(fetch(node_set, FALSE, TRUE, n), node_set, n, absent)

(***************************************************************************)
(* Spec: one NodeSet on Customer, built up and evaluated by at most MaxOps *)
(* operations.  The collaborator answers a fetch with 0..MaxRows rows and  *)
(* a count with a number in 0..MaxRows.                                    *)
(***************************************************************************)
\* the builder variable before any QueryBuilder is constructed
NoBuilder ==
    [ast |-> QueryAST, query_params |-> <<>>, place_holder_registry |-> <<>>,
     ident_count |-> 0, node_counters |-> <<>>,
     with_subgraph |-> FALSE, subquery_context |-> FALSE, err |-> "none"]

Input(input, db) == [input |-> input, db |-> db]

Init ==
    /\ ns = NodeSet("Customer")
    /\ qb = NoBuilder
    /\ last = Op("init", Input(NoneV, 0), "none", NoneV, <<>>, <<>>)
    /\ todo = <<>>
    /\ steps = 0

\* the operation op with this input and this answer of the collaborator had
\* the result r
Record(op, input, db, r) ==
    /\ steps < MaxOps
    /\ ns' = r.ns
    /\ qb' = r.b
    /\ last' = [Op(op, Input(input, IF r.calls = <<>> THEN 0 ELSE db),
                   r.outcome, r.ret, r.events, r.calls)
                EXCEPT !.before =
                    IF last.op = op /\ last.arg.input = input /\ r.ns = ns
                    THEN last.calls ELSE <<>>]
    /\ steps' = steps + 1
    /\ UNCHANGED todo

FilterKwargs ==
    {<<Leaf("name", "", TextA)>>, <<Leaf("age", "in", IntV(5))>>,
     <<Leaf("bogus", "", IntV(1))>>}

GetKwargs == {<<>>, <<Leaf("name", "", TextA)>>, <<Leaf("bogus", "", IntV(1))>>}

Prop(name, desc) == [name |-> name, desc |-> desc]

\* the NodeSets handed to subquery
SubNodeSets ==
    {annotate(filter(NodeSet("Customer"), <<>>, <<Leaf("name", "", TextB)>>),
              "total", Collect("customer", FALSE))}

\* the objects handed to a containment check
Objects ==
    {[kind |-> "node", saved |-> TRUE, element_id |-> StrV(<<"id">>)],
     [kind |-> "node", saved |-> FALSE, element_id |-> NoneV],
     [kind |-> "other", saved |-> FALSE, element_id |-> NoneV]}

Filter ==
    \E kwargs \in FilterKwargs :
        Record("filter", kwargs, 0, Built(filter(ns, <<>>, kwargs), qb))

Exclude ==
    \E kwargs \in {<<Leaf("name", "", TextB)>>} :
        Record("exclude", kwargs, 0, Built(exclude(ns, <<>>, kwargs), qb))

Has ==
    \E rel \in {"orders", "bogus"}, value \in BOOLEAN :
        Record("has", <<rel, value>>, 0, has(ns, qb, rel, BoolV(value)))

OrderBy ==
    \E props \in {<<Prop("age", TRUE)>>, <<Prop("?", FALSE)>>,
                  <<Prop("<None>", FALSE)>>, <<Prop("bogus", FALSE)>>} :
        Record("order_by", props, 0, order_by(ns, qb, props))

FetchRelationsOp ==
    \E relations \in {<<Relation(<<"orders", "items">>, FALSE, TRUE, "")>>,
                      <<Relation(<<"bogus">>, FALSE, TRUE, "")>>} :
        Record("fetch_relations", relations, 0, Built(fetch_relations(ns, relations), qb))

TraverseRelationsOp ==
    \E relations \in {<<Relation(<<"friends">>, FALSE, FALSE, "al")>>} :
        Record("traverse_relations", relations, 0,
               Built(traverse_relations(ns, relations), qb))

Annotate ==
    Record("annotate", "total", 0,
           Built(annotate(ns, "total", Collect("customer", TRUE)), qb))

Subquery ==
    \E nodeset \in SubNodeSets, return_set \in {<<"total">>, <<"bogus">>} :
        Record("subquery", return_set, 0, subquery(ns, nodeset, return_set))

Slice ==
    \E key \in {<<NoneInt, Some(2)>>, <<Some(1), Some(3)>>, <<Some(1), NoneInt>>} :
        Record("slice", key, 0, Built(getitem_slice(ns, key[1], key[2]), qb))

All ==
    \E lazy \in BOOLEAN, n \in 0..MaxRows : Record("all", lazy, n, all(ns, lazy, n))

Iter ==
    \E n \in 0..MaxRows : Record("iter", NoneV, n, __iter__(ns, n))

LenOp ==
    \E c \in 0..MaxRows : Record("len", NoneV, c, __len__(ns, c))

Bool ==
    \E c \in 0..MaxRows : Record("bool", NoneV, c, __bool__(ns, c))

Contains ==
    \E obj \in Objects, c \in 0..MaxRows :
        Record("contains", obj, c, __contains__(ns, qb, obj, c))

Get ==
    \E kwargs \in GetKwargs, n \in 0..MaxRows :
        Record("get", kwargs, n, get(ns, FALSE, kwargs, n))

GetOrNone ==
    \E kwargs \in GetKwargs, n \in 0..MaxRows :
        Record("get_or_none", kwargs, n, get_or_none(ns, kwargs, n))

First ==
    \E kwargs \in GetKwargs, n \in 0..MaxRows :
        Record("first", kwargs, n, first(ns, kwargs, n))

FirstOrNone ==
    \E kwargs \in GetKwargs, n \in 0..MaxRows :
        Record("first_or_none", kwargs, n, first_or_none(ns, kwargs, n))

GetItem ==
    \E key \in {0, 1}, n \in 0..1 :
        Record("getitem", key, n, getitem_int(ns, key, n))

ResolveSubgraph ==
    \E n \in 0..MaxRows :
        Record("resolve_subgraph", NoneV, n, resolve_subgraph(ns, qb, n, {}))

Next ==
    \/ Filter
    \/ Exclude
    \/ Has
    \/ OrderBy
    \/ FetchRelationsOp
    \/ TraverseRelationsOp
    \/ Annotate
    \/ Subquery
    \/ Slice
    \/ All
    \/ Iter
    \/ LenOp
    \/ Bool
    \/ Contains
    \/ Get
    \/ GetOrNone
    \/ First
    \/ FirstOrNone
    \/ GetItem
    \/ ResolveSubgraph

Spec == Init /\ [][Next]_vars

BuilderOps ==
    {"filter", "exclude", "has", "order_by", "fetch_relations",
     "traverse_relations", "annotate", "subquery", "slice"}

TerminalOps ==
    {"all", "iter", "len", "bool", "contains", "get", "get_or_none", "first",
     "first_or_none", "getitem", "resolve_subgraph"}

(***************************************************************************)
(* Reading a match fragment: a node pattern is the four tokens             *)
(* ( name :Label ), a relationship pattern the seven tokens from the arrow *)
(* head to the arrow tail with [ ident : TYPE ] between them.              *)
(***************************************************************************)
RECURSIVE TokensAfter(_, _)
TokensAfter(fragment, opener) ==
    IF Len(fragment) < 2 THEN <<>>
    ELSE (IF Head(fragment) = T(opener) THEN <<fragment[2][2]>> ELSE <<>>)
         \o TokensAfter(Tail(fragment), opener)

NodeIdents(fragment) == TokensAfter(fragment, "(")
RelIdents(fragment) == TokensAfter(fragment, "[")
NoDuplicates(seq) == \A i, j \in DOMAIN seq : i # j => seq[i] # seq[j]

\* the relations build_traversal_from_path has resolved without error
Resolved ==
    LET n == Len(ns.relations_to_fetch) - Len(todo) IN
    SubSeq(ns.relations_to_fetch, 1, IF qb.err = "none" THEN n ELSE n - 1)

RECURSIVE SumHops(_)
SumHops(relations) ==
    IF relations = <<>> THEN 0 ELSE Len(Head(relations).path) + SumHops(Tail(relations))

IsOptional(r) == r.optional
IsNotOptional(r) == ~r.optional

\* the fragment is the root pattern followed, hop after hop, by the hop's
\* relationship pattern and the hop's node pattern, and by nothing else
RECURSIVE ChainFrom(_, _, _, _)
ChainFrom(fragment, at, cls, path) ==
    IF path = <<>> THEN Len(fragment) = at
    ELSE LET definition == Relationships(cls)[Head(path)] IN
         /\ Len(fragment) >= at + 11
         /\ fragment[at + 2] = T("[")
         /\ fragment[at + 5] = T(definition.relation_type)
         /\ fragment[at + 8] = T("(")
         /\ fragment[at + 10] = T(":" \o Label(definition.node_class))
         /\ ChainFrom(fragment, at + 11, definition.node_class, Tail(path))

IsChain(fragment, relation) ==
    /\ Len(fragment) >= 4
    /\ SubSeq(fragment, 1, 4) = <<T("("), T("customer"), T(":Customer"), T(")")>>
    /\ ChainFrom(fragment, 4, ns.source, relation.path)

\* C3 as claimed: a resolved path of N hops has added N fragments, to match when
\* the path is not optional and to optional_match when it is, and each fragment
\* holds one relationship pattern only, from the preceding hop's identifier
C3_FragmentPerHop ==
    /\ Len(qb.ast.match) = SumHops(SelectSeq(Resolved, IsNotOptional))
    /\ Len(qb.ast.optional_match) = SumHops(SelectSeq(Resolved, IsOptional))
    /\ \A f \in Range(qb.ast.match) \cup Range(qb.ast.optional_match) :
         Len(RelIdents(f)) = 1

\* C3 amended: a resolved path of N hops has added exactly one fragment, to match
\* when the path is not optional and to optional_match when it is, and that
\* fragment chains the N hop patterns left to right from the root identifier,
\* each hop's pattern starting at the node of the hop before it
C3_FragmentPerPath ==
    LET plain == SelectSeq(Resolved, IsNotOptional)
        optional == SelectSeq(Resolved, IsOptional)
    IN /\ Len(qb.ast.match) = Len(plain)
       /\ Len(qb.ast.optional_match) = Len(optional)
       /\ \A i \in DOMAIN plain :
            IsChain(qb.ast.match[i], plain[i])
            /\ Len(RelIdents(qb.ast.match[i])) = Len(plain[i].path)
       /\ \A i \in DOMAIN optional :
            IsChain(qb.ast.optional_match[i], optional[i])
            /\ Len(RelIdents(qb.ast.optional_match[i])) = Len(optional[i].path)

\* C3 witness: an optional path of three hops and a non-optional path of two hops
\* have both been resolved
C3_Witness ==
    /\ todo = <<>> /\ qb.err = "none"
    /\ \E r \in Range(ns.relations_to_fetch) : r.optional /\ Len(r.path) = 3
    /\ \E r \in Range(ns.relations_to_fetch) : ~r.optional /\ Len(r.path) = 2

\* the identifiers of the hops, as they stand in the fragments of the AST
HopIdents ==
    Concat([i \in DOMAIN (qb.ast.match \o qb.ast.optional_match) |->
              Tail(NodeIdents((qb.ast.match \o qb.ast.optional_match)[i]))
              \o RelIdents((qb.ast.match \o qb.ast.optional_match)[i])])

\* C4: in one compilation the node identifiers and relationship identifiers of
\* all hops of all resolved paths are pairwise distinct and differ from the root
\* identifier
C4_IdentifiersUnique ==
    /\ NoDuplicates(HopIdents)
    /\ Lower(Label(ns.source)) \notin Range(HopIdents)
    /\ Len(HopIdents) = 2 * SumHops(Resolved)

\* C4 witness: two resolved paths that share their first hop, one of them with
\* the same relationship name at two depths
C4_Witness ==
    /\ todo = <<>> /\ qb.err = "none"
    /\ Len(ns.relations_to_fetch) = 2
    /\ ns.relations_to_fetch[1].path = <<"orders", "customer", "orders">>
    /\ ns.relations_to_fetch[2].path = <<"orders", "items">>

(***************************************************************************)
(* Claims about the translation of one filter leaf.                        *)
(***************************************************************************)
StringPatternSuffixes ==
    {"iexact", "contains", "icontains", "startswith", "istartswith",
     "endswith", "iendswith"}
RawRegexSuffixes == {"regex", "iregex"}

\* the text a regex-family suffix is claimed to produce from a deflated text
ClaimedPattern(suffix, text) ==
    IF suffix = "regex" THEN text
    ELSE format(_REGEX_OPERATOR_TABLE[suffix],
                IF suffix \in StringPatternSuffixes THEN re_escape(text) ELSE text)

DeflatedOf(leaf) == deflate(Properties(ns.source_class)[leaf.prop], leaf.val)

IsPlainProperty(leaf) ==
    /\ leaf.prop \in DOMAIN Properties(ns.source_class)
    /\ Properties(ns.source_class)[leaf.prop] # "Alias"

\* C9 as claimed: a leaf with a regex-family suffix and a textual deflated value
\* translates to the regex-match operator and the deflated text in the suffix's
\* template, escaped for the string-pattern suffixes and unescaped for regex
\* and iregex
C9_RegexTranslation ==
    (/\ last.op = "leaf"
     /\ last.arg.suffix \in StringPatternSuffixes \cup RawRegexSuffixes
     /\ IsPlainProperty(last.arg)
     /\ DeflatedOf(last.arg).t = "str")
    => /\ last.outcome = "none"
       /\ last.ret[1].operator = _SPECIAL_OPERATOR_REGEX
       /\ last.ret[1].value = StrV(ClaimedPattern(last.arg.suffix, DeflatedOf(last.arg).v))

\* the shapes the claim says are refused
BadShape(leaf) ==
    /\ IsPlainProperty(leaf)
    /\ \/ leaf.suffix = "in" /\ leaf.val.t # "list"
       \/ leaf.suffix = "isnull" /\ leaf.val.t # "bool"
       \/ /\ leaf.suffix \in StringPatternSuffixes \cup RawRegexSuffixes
          /\ DeflatedOf(leaf).t # "str"

\* C10 as claimed: a leaf whose value has the wrong shape for in, isnull or a
\* regex-family suffix fails with InvalidFilterValue and leaves the placeholder
\* registry and the parameter table as they were
C10_BadShapeRefused ==
    [][(last'.op = "leaf" /\ BadShape(last'.arg))
       => /\ last'.outcome = "InvalidFilterValue"
          /\ qb'.place_holder_registry = qb.place_holder_registry
          /\ qb'.query_params = qb.query_params]_vars

(***************************************************************************)
(* Claims about the operations of a NodeSet.                               *)
(***************************************************************************)
\* the placeholder names that occur in a statement text
Placeholders(text) == {text[i][2] : i \in {k \in DOMAIN text : text[k][1] = "p"}}

\* the last operation was a terminal operation that handed a statement over
Ran == last.op \in TerminalOps /\ last.calls # <<>>

\* C1 as claimed: in the statement a terminal operation hands over, the text of
\* the registered sub-statements included, no placeholder name stands for two
\* distinct values: the value a sub-statement's builder registered under a name
\* is the value the statement's builder registered under it, and the value any
\* other sub-statement's builder registered under it
C1_PlaceholdersDistinct ==
    Ran =>
        \A i \in DOMAIN ns._subqueries :
            \A name \in DOMAIN ns._subqueries[i].params
                        \cap Placeholders(last.calls[1].text) :
                /\ name \in DOMAIN qb.query_params
                      => qb.query_params[name] = ns._subqueries[i].params[name]
                /\ \A j \in DOMAIN ns._subqueries :
                      name \in DOMAIN ns._subqueries[j].params
                      => ns._subqueries[j].params[name] = ns._subqueries[i].params[name]

\* C2 as claimed: every placeholder in the statement text a terminal operation
\* hands to the collaborator, the text of the registered sub-statements
\* included, has an entry in the parameter table handed over in the same call,
\* and the entry is the value the placeholder was registered for
C2_PlaceholdersBound ==
    last.op \in TerminalOps =>
        \A k \in DOMAIN last.calls :
            /\ \A name \in Placeholders(last.calls[k].text) :
                  name \in DOMAIN last.calls[k].params
            /\ \A name \in DOMAIN qb.query_params :
                  last.calls[k].params[name] = qb.query_params[name]
            /\ \A i \in DOMAIN ns._subqueries :
                  \A name \in DOMAIN ns._subqueries[i].params :
                      last.calls[k].params[name] = ns._subqueries[i].params[name]

\* C5: when a terminal operation compiles a NodeSet that the same operation with
\* the same input compiled just before, and the NodeSet has no random ordering,
\* the statement text and the parameter table handed over are the same both
\* times
C5_CompileTwice ==
    (/\ Ran
     /\ last.before # <<>>
     /\ "?" \notin Range(ns.order_by_elements))
    => last.calls = last.before

\* C5 witness: a NodeSet with a filter, hence with a placeholder and a bound
\* value, has been compiled and run twice in a row
C5_Witness ==
    /\ Ran
    /\ last.before # <<>>
    /\ "?" \notin Range(ns.order_by_elements)
    /\ Placeholders(last.calls[1].text) # {}
    /\ DOMAIN last.calls[1].params # {}

\* the structural and validation errors
ValidationErrors ==
    {"UnknownProperty", "InvalidFilterValue", "UnknownRelationship",
     "NothingToResolve", "UnsupportedSubgraphShape", "UnsavedNode", "NotANode"}

\* C6: within one terminal operation no structural or validation error comes
\* after a call of the collaborator's run
C6_ValidateBeforeRun ==
    last.op \in TerminalOps =>
        \A i, j \in DOMAIN last.events :
            (i < j /\ last.events[i] = "run") => last.events[j] \notin ValidationErrors

\* C6 witness: a terminal operation on a NodeSet built by earlier operations
\* raised a validation error, and run was not called
C6_Witness ==
    /\ last.op \in TerminalOps
    /\ steps > 1
    /\ last.outcome \in ValidationErrors
    /\ last.events = <<last.outcome>>
    /\ last.calls = <<>>

\* the number of calls of run among the events
RunCount(events) == Cardinality({i \in DOMAIN events : events[i] = "run"})

\* C7: a builder operation never calls run, a terminal operation that succeeds
\* calls it exactly once, no operation calls it more than once, and slicing
\* returns the NodeSet itself
C7_RunOncePerTerminal ==
    /\ RunCount(last.events) = Len(last.calls)
    /\ last.op \in BuilderOps => last.calls = <<>>
    /\ last.op \notin TerminalOps => last.calls = <<>>
    /\ (last.op \in TerminalOps /\ last.outcome = "none") => Len(last.calls) = 1
    /\ Len(last.calls) <= 1
    /\ last.op = "slice" => (last.outcome = "none" /\ last.ret = SelfV)

\* C7 witness: a count succeeded, with one run, on a NodeSet that was sliced
\* before
C7_Witness ==
    /\ last.op = "len"
    /\ last.outcome = "none"
    /\ Len(last.calls) = 1
    /\ Truthy(ns.skip) /\ Truthy(ns.limit)

\* C8: get and get_or_none compile the NodeSet with limit 2, and once the
\* statement has run the outcome follows from the number of rows alone: two or
\* more rows fail with MultipleNodesReturned; no row fails with DoesNotExist in
\* get and returns None in get_or_none; one row returns the value of the row
\* when the row has one value (and the row itself when it has several)
C8_GetOutcome ==
    (last.op \in {"get", "get_or_none"} /\ last.calls # <<>>)
    => /\ ns.limit = Some(2)
       /\ SubSeq(last.calls[1].text, Len(last.calls[1].text) - 1,
                 Len(last.calls[1].text)) = <<T("LIMIT"), T("2")>>
       /\ last.arg.db >= 2 => last.outcome = "MultipleNodesReturned"
       /\ (last.arg.db = 0 /\ last.op = "get") => last.outcome = "DoesNotExist"
       /\ (last.arg.db = 0 /\ last.op = "get_or_none")
             => (last.outcome = "none" /\ last.ret = NoneV)
       /\ last.arg.db = 1
             => /\ last.outcome = "none"
                /\ last.ret = IF Len(returned_items(qb, ns)) = 1 THEN Cell(1, 1)
                              ELSE Rows(1, Len(returned_items(qb, ns)))[1]

\* C8 witness: get with a filter keyword ran its statement and was answered
\* with two rows
C8_Witness ==
    /\ last.op = "get"
    /\ last.arg.input # <<>>
    /\ last.calls # <<>>
    /\ last.arg.db = 2
    /\ last.outcome = "MultipleNodesReturned"

(***************************************************************************)
(* SpecTree: filter and exclude called with Q objects and keywords on one  *)
(* NodeSet, and the NodeSet compiled by build_ast.  todo is history: the   *)
(* calls made so far, in order.                                            *)
(***************************************************************************)
MaxCalls == 3

LeafName == Leaf("name", "", TextB)
LeafAge == Leaf("age", "", IntV(5))
LeafNull == Leaf("age", "isnull", BoolV(FALSE))

\* the arguments of one call of filter or exclude
Predicate(args, kwargs) == [args |-> args, kwargs |-> kwargs]

Predicates ==
    {Predicate(<<>>, <<LeafName>>),
     Predicate(<<QCombine(Q(<<>>, <<LeafName>>), Q(<<>>, <<LeafAge>>), "OR")>>, <<>>),
     Predicate(<<QCombine(QInvert(Q(<<>>, <<LeafName>>)), Q(<<>>, <<LeafNull>>), "OR")>>,
               <<LeafAge>>),
     Predicate(<<QCombine(Q(<<>>, <<LeafAge>>), Q(<<>>, <<LeafName, LeafNull>>), "OR")>>,
               <<>>),
     Predicate(<<QInvert(QCombine(Q(<<>>, <<LeafName>>), Q(<<>>, <<LeafAge>>), "OR"))>>,
               <<>>)}

Call(op, p) == [op |-> op, p |-> p]

InitTree ==
    /\ ns = NodeSet("Customer")
    /\ qb = NoBuilder
    /\ last = NoOp
    /\ todo = <<>>
    /\ steps = 0

TreeFilter ==
    /\ steps < MaxCalls
    /\ \E p \in Predicates :
         /\ ns' = filter(ns, p.args, p.kwargs)
         /\ todo' = Append(todo, Call("filter", p))
    /\ last' = Op("filter", NoneV, "none", SelfV, <<>>, <<>>)
    /\ steps' = steps + 1
    /\ UNCHANGED qb

TreeExclude ==
    /\ steps < MaxCalls
    /\ \E p \in Predicates :
         /\ ns' = exclude(ns, p.args, p.kwargs)
         /\ todo' = Append(todo, Call("exclude", p))
    /\ last' = Op("exclude", NoneV, "none", SelfV, <<>>, <<>>)
    /\ steps' = steps + 1
    /\ UNCHANGED qb

\* a terminal operation's compilation: QueryBuilder(self).build_ast()
TreeCompile ==
    /\ last.op # "compile"
    /\ qb' = build_ast(QueryBuilder(FALSE, FALSE), ns)
    /\ last' = Op("compile", NoneV, qb'.err, NoneV, <<>>, <<>>)
    /\ UNCHANGED <<ns, todo, steps>>

NextTree ==
    \/ TreeFilter
    \/ TreeExclude
    \/ TreeCompile

SpecTree == InitTree /\ [][NextTree]_vars

(***************************************************************************)
(* C11, C12: the where text of a filter tree.                              *)
(***************************************************************************)
\* what a leaf of the tree asks of a node: the property, the comparison and
\* the value compared with (none for a unary operator)
TermOfLeaf(cls, ident, leaf) ==
    LET e == process_filter_args(cls, <<leaf>>).output[1]
    IN <<ident \o "." \o e.prop, e.operator,
         IF e.operator \in _UNARY_OPERATORS THEN NoneV ELSE e.value>>

RECURSIVE LeavesOfTree(_)
LeavesOfTree(q) ==
    UNION {IF IsQ(q.children[i]) THEN LeavesOfTree(q.children[i]) ELSE {q.children[i]} :
             i \in DOMAIN q.children}

\* the truth of the tree when the terms of S hold and the others do not
RECURSIVE TreeHolds(_, _, _, _)
TreeHolds(q, cls, ident, S) ==
    LET holds(c) == IF IsQ(c) THEN TreeHolds(c, cls, ident, S)
                    ELSE TermOfLeaf(cls, ident, c) \in S
        body == IF q.connector = "OR"
                THEN \E i \in DOMAIN q.children : holds(q.children[i])
                ELSE \A i \in DOMAIN q.children : holds(q.children[i])
    IN IF q.negated THEN ~body ELSE body

\* the truth of a where text read as Cypher reads it: NOT binds tighter than
\* AND, AND tighter than OR, parentheses group; v is the truth of the
\* expression read and rest the text after it
RECURSIVE CypherOr(_, _, _)
RECURSIVE CypherAnd(_, _, _)
RECURSIVE CypherNot(_, _, _)
RECURSIVE CypherOrRest(_, _, _, _)
RECURSIVE CypherAndRest(_, _, _, _)
CypherNot(toks, params, S) ==
    IF Head(toks) = T("NOT")
    THEN LET r == CypherNot(Tail(toks), params, S) IN [v |-> ~r.v, rest |-> r.rest]
    ELSE IF Head(toks) = T("(")
    THEN LET r == CypherOr(Tail(toks), params, S) IN [v |-> r.v, rest |-> Tail(r.rest)]
    ELSE IF Len(toks) >= 3 /\ toks[3][1] = "p"
    THEN [v |-> <<toks[1][2], toks[2][2], params[toks[3][2]]>> \in S,
          rest |-> SubSeq(toks, 4, Len(toks))]
    ELSE [v |-> <<toks[1][2], toks[2][2], NoneV>> \in S,
          rest |-> SubSeq(toks, 3, Len(toks))]

CypherAndRest(v, toks, params, S) ==
    IF toks # <<>> /\ Head(toks) = T("AND")
    THEN LET r == CypherNot(Tail(toks), params, S)
         IN CypherAndRest(v /\ r.v, r.rest, params, S)
    ELSE [v |-> v, rest |-> toks]

CypherAnd(toks, params, S) ==
    LET r == CypherNot(toks, params, S) IN CypherAndRest(r.v, r.rest, params, S)

CypherOrRest(v, toks, params, S) ==
    IF toks # <<>> /\ Head(toks) = T("OR")
    THEN LET r == CypherAnd(Tail(toks), params, S)
         IN CypherOrRest(v \/ r.v, r.rest, params, S)
    ELSE [v |-> v, rest |-> toks]

CypherOr(toks, params, S) ==
    LET r == CypherAnd(toks, params, S) IN CypherOrRest(r.v, r.rest, params, S)

RECURSIVE SumOf(_)
SumOf(seq) == IF seq = <<>> THEN 0 ELSE Head(seq) + SumOf(Tail(seq))

RECURSIVE NegatedNodes(_)
NegatedNodes(q) ==
    LET below == [i \in DOMAIN q.children |->
                     IF IsQ(q.children[i]) THEN NegatedNodes(q.children[i]) ELSE 0]
    IN SumOf(below) + (IF q.negated THEN 1 ELSE 0)

\* how many parentheses are open at position i of a text
Depth(text, i) ==
    Cardinality({j \in 1..(i - 1) : text[j] = T("(")})
    - Cardinality({j \in 1..(i - 1) : text[j] = T(")")})

\* the where fragment the compilation made of the filter tree
TreeText == qb.ast.where[Len(qb.ast.where)]

TreeCompiled ==
    /\ last.op = "compile"
    /\ qb.err = "none"
    /\ ns.q_filters.children # <<>>

\* C11: in the where text compiled from the filter tree of a NodeSet, every
\* negated node is rendered as NOT ( body ): the text has one NOT per negated
\* node, each followed by an opening parenthesis, and exclude(p=v) alone gives
\* NOT ( ident.p = $placeholder ); no OR stands outside parentheses, and read
\* with the precedence of Cypher the text holds exactly when the tree holds,
\* whichever of its terms hold
C11_TreeRendering ==
    TreeCompiled =>
       /\ Cardinality({i \in DOMAIN TreeText : TreeText[i] = T("NOT")})
             = NegatedNodes(ns.q_filters)
       /\ \A i \in DOMAIN TreeText :
             TreeText[i] = T("NOT") => (i < Len(TreeText) /\ TreeText[i + 1] = T("("))
       /\ \A i \in DOMAIN TreeText : TreeText[i] = T("OR") => Depth(TreeText, i) > 0
       /\ \A k \in {LeafName} :
             todo = <<Call("exclude", Predicate(<<>>, <<k>>))>>
             => \E name \in DOMAIN qb.query_params :
                   /\ TreeText = <<T("NOT"), T("("), T("customer." \o k.prop), T("="),
                                   P(name), T(")")>>
                   /\ qb.query_params[name] = k.val
       /\ \A S \in SUBSET {TermOfLeaf(ns.source_class, "customer", k) :
                              k \in LeavesOfTree(ns.q_filters)} :
             LET r == CypherOr(TreeText, qb.query_params, S)
             IN /\ r.rest = <<>>
                /\ r.v = TreeHolds(ns.q_filters, ns.source_class, "customer", S)

\* C11 witness: a compiled tree with a negated node and an OR group that has
\* sibling terms
C11_Witness ==
    /\ TreeCompiled
    /\ NegatedNodes(ns.q_filters) > 0
    /\ \E i \in DOMAIN TreeText :
          /\ TreeText[i] = T("OR")
          /\ \E j \in DOMAIN TreeText : TreeText[j] = T("AND") /\ Depth(TreeText, j) = 0

\* the NodeSet after a sequence of calls of filter and exclude
RECURSIVE Replay(_, _)
Replay(node_set, calls) ==
    IF calls = <<>> THEN node_set
    ELSE Replay(IF Head(calls).op = "filter"
                THEN filter(node_set, Head(calls).p.args, Head(calls).p.kwargs)
                ELSE exclude(node_set, Head(calls).p.args, Head(calls).p.kwargs),
                Tail(calls))

\* the same calls in every order
Reordered(calls) ==
    {[i \in DOMAIN calls |-> calls[f[i]]] : f \in Permutations(DOMAIN calls)}

CompiledFrom(calls) ==
    build_ast(QueryBuilder(FALSE, FALSE), Replay(NodeSet("Customer"), calls))

\* the term of a where text that ends at position i, its placeholder replaced
\* by the value bound to it
EndsTerm(text, i) == text[i][1] = "p" \/ text[i][2] \in _UNARY_OPERATORS

TermAt(text, params, i) ==
    IF text[i][1] = "p"
    THEN <<text[i - 2][2], text[i - 1][2], params[text[i][2]]>>
    ELSE <<text[i - 1][2], text[i][2], NoneV>>

TermsOf(b) ==
    LET text == b.ast.where[Len(b.ast.where)]
    IN [i \in {j \in DOMAIN text : EndsTerm(text, j)} |-> TermAt(text, b.query_params, i)]

\* two functions take every value the same number of times
SameBag(f, g) ==
    \A v \in {f[k] : k \in DOMAIN f} \cup {g[k] : k \in DOMAIN g} :
        Cardinality({k \in DOMAIN f : f[k] = v}) = Cardinality({k \in DOMAIN g : g[k] = v})

SameStatement(b1, b2) ==
    /\ b2.err = "none"
    /\ SameBag(b1.query_params, b2.query_params)
    /\ SameBag(TermsOf(b1), TermsOf(b2))

\* C12: when the calls of filter and exclude that built a NodeSet are made in
\* another order, the compiled statement binds the same values the same number
\* of times in its parameter table, and its where text has the same terms the
\* same number of times once each placeholder is replaced by the value bound
\* to it
C12_CallOrder ==
    TreeCompiled => \A calls \in Reordered(todo) : SameStatement(qb, CompiledFrom(calls))

\* C12 witness: two different calls were compiled, and the other order gives
\* another where text
C12_Witness ==
    /\ TreeCompiled
    /\ Len(todo) = 2
    /\ CompiledFrom(<<todo[2], todo[1]>>).ast.where # qb.ast.where

(***************************************************************************)
(* SpecOrder: order_by with one or several properties, an alias, the       *)
(* random order and None, followed by a fetch or a count.                  *)
(***************************************************************************)
OrderProps ==
    {<<Prop("age", TRUE)>>, <<Prop("name", FALSE)>>, <<Prop("nick", TRUE)>>,
     <<Prop("age", TRUE), Prop("name", FALSE)>>, <<Prop("?", FALSE)>>,
     <<Prop("<None>", FALSE)>>, <<Prop("bogus", FALSE)>>}

OrderByAny ==
    \E props \in OrderProps : Record("order_by", props, 0, order_by(ns, qb, props))

NextOrder ==
    \/ OrderByAny
    \/ All
    \/ LenOp

SpecOrder == Init /\ [][NextOrder]_vars

(***************************************************************************)
(* C13: ordering.                                                          *)
(***************************************************************************)
\* the terms of the ORDER BY clause of a statement text
OrderTerms(text) ==
    IF T("ORDER BY") \notin Range(text) THEN {}
    ELSE LET from == CHOOSE i \in DOMAIN text : text[i] = T("ORDER BY")
             stops == {i \in DOMAIN text : i > from /\ text[i] \in {T("SKIP"), T("LIMIT")}}
             to == IF stops = {} THEN Len(text)
                   ELSE (CHOOSE i \in stops : \A j \in stops : i <= j) - 1
         IN {text[i][2] : i \in {k \in (from + 1)..to : text[k] # T(",")}}

\* the operations that render in count mode
CountOps == {"len", "bool", "contains"}

\* order_by returned, and the next operation handed a statement over
RenderAfterOrderBy ==
    /\ last.op = "order_by"
    /\ last.outcome = "none"
    /\ last'.op \in TerminalOps
    /\ last'.calls # <<>>

DescendingAsked == {p \in {"name", "age", "tags", "nick"} : Prop(p, TRUE) \in Range(last.arg.input)}

\* C13 as claimed: the statement rendered next after order_by(-f), f a declared
\* property, has the order-by term ident.f DESC, and the statement rendered
\* next after order_by(None) has no ORDER BY clause
C13_OrderByRendered ==
    [][RenderAfterOrderBy
       => /\ \A f \in DescendingAsked :
                ("customer." \o f \o " DESC") \in OrderTerms(last'.calls[1].text)
          /\ last.arg.input = <<Prop("<None>", FALSE)>>
                => T("ORDER BY") \notin Range(last'.calls[1].text)]_vars

\* C13 amended: the statement rendered next after order_by(-f) has no ORDER BY
\* clause when it is rendered in count mode; otherwise its ORDER BY clause is
\* the single term r when the random order ? is among the elements kept since
\* the last order_by(None), and else has the term ident.g DESC, where g is f,
\* or the property f is an alias of; the statement rendered next after
\* order_by(None) has no ORDER BY clause
C13_OrderByRenderedFetch ==
    [][RenderAfterOrderBy
       => /\ \A f \in DescendingAsked :
                IF last'.op \in CountOps
                THEN T("ORDER BY") \notin Range(last'.calls[1].text)
                ELSE IF "?" \in Range(ns.order_by_elements)
                THEN OrderTerms(last'.calls[1].text) = {"r"}
                ELSE ("customer." \o aliased_to(ns.source_class, f) \o " DESC")
                        \in OrderTerms(last'.calls[1].text)
          /\ last.arg.input = <<Prop("<None>", FALSE)>>
                => T("ORDER BY") \notin Range(last'.calls[1].text)]_vars

\* C13 witness: a fetch rendered with a descending term after order_by(-f), the
\* elements kept from an earlier call included
C13_Witness ==
    /\ last.op = "all"
    /\ last.calls # <<>>
    /\ Len(ns.order_by_elements) >= 2
    /\ "customer.age DESC" \in OrderTerms(last.calls[1].text)

(***************************************************************************)
(* SpecSub: subquery with a plain, an annotated and a relation-fetching    *)
(* NodeSet and several lists of declared variables, annotate, and the      *)
(* renders of a fetch and of a count.                                      *)
(***************************************************************************)
SubNodeSetsAny ==
    SubNodeSets
    \cup {NodeSet("Customer"),
          fetch_relations(NodeSet("Customer"),
                          <<Relation(<<"orders">>, FALSE, TRUE, "")>>)}

ReturnSets == {<<"total">>, <<"customer">>, <<"order_orders_1">>, <<"total", "customer">>}

SubqueryAny ==
    \E nodeset \in SubNodeSetsAny, return_set \in ReturnSets :
        Record("subquery", return_set, 0, subquery(ns, nodeset, return_set))

NextSub ==
    \/ SubqueryAny
    \/ Annotate
    \/ All
    \/ LenOp

SpecSub == Init /\ [][NextSub]_vars

(***************************************************************************)
(* C14: the variables a sub-statement is declared to return.               *)
(***************************************************************************)
\* the items of the last RETURN clause of a statement text
ReturnItems(text) ==
    LET returns == {i \in DOMAIN text : text[i] = T("RETURN")}
        from == CHOOSE i \in returns : \A j \in returns : j <= i
        stops == {i \in DOMAIN text :
                     i > from /\ text[i] \in {T("ORDER BY"), T("SKIP"), T("LIMIT")}}
        to == IF stops = {} THEN Len(text)
              ELSE (CHOOSE i \in stops : \A j \in stops : i <= j) - 1
    IN {text[i][2] : i \in {k \in (from + 1)..to : text[k] # T(",")}}

\* a RETURN item that gives a variable: the variable itself, or an aggregate
\* under that name
Produces(item, var) ==
    \/ item = var
    \/ \E distinct \in BOOLEAN : item = Collect("customer", distinct) \o " AS " \o var

\* C14 as claimed: subquery succeeds only if every declared variable is a
\* returned item of the RETURN clause of the sub-statement text it records;
\* otherwise it fails with InvalidSubStatementBinding and the list of recorded
\* sub-statements is as it was
C14_SubqueryBinding ==
    [][last'.op = "subquery"
       => IF last'.outcome = "none"
          THEN /\ Len(ns'._subqueries) = Len(ns._subqueries) + 1
               /\ LET entry == ns'._subqueries[Len(ns'._subqueries)]
                  IN \A i \in DOMAIN entry.return_set :
                        \E item \in ReturnItems(entry.text) :
                            Produces(item, entry.return_set[i])
          ELSE /\ last'.outcome = "InvalidSubStatementBinding"
               /\ ns'._subqueries = ns._subqueries]_vars

(***************************************************************************)
(* SpecPage: slicing and integer indexing with ordering and fetched        *)
(* relations, and the renders of a fetch and of a count.                   *)
(***************************************************************************)
SliceKeys ==
    {<<NoneInt, Some(2)>>, <<Some(1), Some(3)>>, <<Some(1), NoneInt>>,
     <<Some(0), Some(2)>>, <<Some(3), Some(1)>>}

SliceAny ==
    \E key \in SliceKeys :
        Record("slice", key, 0, Built(getitem_slice(ns, key[1], key[2]), qb))

NextPage ==
    \/ SliceAny
    \/ GetItem
    \/ OrderBy
    \/ FetchRelationsOp
    \/ All
    \/ LenOp

SpecPage == Init /\ [][NextPage]_vars

(***************************************************************************)
(* C15: SKIP and LIMIT in the rendered statement.                          *)
(***************************************************************************)
PositionsOf(text, word) == {i \in DOMAIN text : text[i] = T(word)}

LastReturn(text) ==
    CHOOSE i \in PositionsOf(text, "RETURN") : \A j \in PositionsOf(text, "RETURN") : j <= i

\* the identifiers a compilation of the NodeSet returns beside the primary one
AdditionalReturn(node_set) ==
    Range(build_ast(QueryBuilder(FALSE, FALSE), node_set).ast.additional_return)

\* SKIP n and LIMIT n of one statement text, given the skip and limit compiled
PaginationOnce(text, skip, limit, is_count) ==
    /\ Cardinality(PositionsOf(text, "SKIP")) = IF Truthy(skip) THEN 1 ELSE 0
    /\ Cardinality(PositionsOf(text, "LIMIT")) = IF Truthy(limit) THEN 1 ELSE 0
    /\ \A i \in PositionsOf(text, "SKIP") : text[i + 1] = T(ToString(skip.v))
    /\ \A i \in PositionsOf(text, "LIMIT") : text[i + 1] = T(ToString(limit.v))
    /\ \A i \in PositionsOf(text, "SKIP") \cup PositionsOf(text, "LIMIT") :
          IF is_count
          THEN /\ i < LastReturn(text)
               /\ \E w \in PositionsOf(text, "WITH") :
                     /\ w < i
                     /\ \A j \in (w + 2)..(i - 1) :
                           text[j] \in {T("SKIP"), T(ToString(skip.v))}
          ELSE /\ i > LastReturn(text)
               /\ \A j \in (i + 2)..Len(text) :
                     text[j] \in {T("LIMIT"), T(ToString(limit.v))}

\* C15: in a statement rendered by a terminal operation, SKIP n is there once
\* when a skip is compiled and LIMIT n once when a limit is, and not at all
\* otherwise; in count mode they stand in the WITH clause, before RETURN, and
\* the statement has no ORDER BY clause and none of the additional-return
\* identifiers among its returned items; in the other renders they stand at
\* the tail, behind RETURN and ORDER BY
C15_PaginationPlaced ==
    Ran => \A k \in DOMAIN last.calls :
              /\ PaginationOnce(last.calls[k].text, qb.ast.skip, qb.ast.limit,
                                last.op \in CountOps)
              /\ last.op \in CountOps
                    => /\ PositionsOf(last.calls[k].text, "ORDER BY") = {}
                       /\ ReturnItems(last.calls[k].text) \cap AdditionalReturn(ns) = {}

\* C15 witness: a count rendered for a NodeSet with a skip, a limit and an
\* ordering
C15_Witness ==
    /\ last.op = "len"
    /\ last.calls # <<>>
    /\ Truthy(ns.skip)
    /\ Truthy(ns.limit)
    /\ ns.order_by_elements # <<>>

(***************************************************************************)
(* C16: the returned items of a lazy fetch.                                *)
(***************************************************************************)
Projected(ident) == get_id_method \o "(" \o ident \o ")"

\* C16 as claimed: in the statement all(lazy=True) renders, the primary return
\* identifier and each additional-return identifier are returned through the
\* identity function of the database, and none of them as the object itself
C16_LazyProjectsAll ==
    (last.op = "all" /\ last.calls # <<>> /\ last.arg.input = TRUE)
    => \A ident \in {Lower(Label(ns.source))} \cup AdditionalReturn(ns) :
          /\ Projected(ident) \in ReturnItems(last.calls[1].text)
          /\ ident \notin ReturnItems(last.calls[1].text)

(***************************************************************************)
(* SpecGraph: fetch_relations with one or two paths, optional or not, and  *)
(* resolve_subgraph on the rows the collaborator returns; in the rows of   *)
(* `absent` the optional matches found nothing.                            *)
(***************************************************************************)
FetchPaths ==
    {<<Relation(<<"orders">>, FALSE, TRUE, "")>>,
     <<Relation(<<"orders">>, TRUE, TRUE, "")>>,
     <<Relation(<<"friends">>, FALSE, TRUE, "")>>,
     <<Relation(<<"orders">>, TRUE, TRUE, ""), Relation(<<"friends">>, FALSE, TRUE, "")>>,
     <<Relation(<<"orders", "items">>, FALSE, TRUE, "")>>}

FetchRelationsAny ==
    \E relations \in FetchPaths :
        Record("fetch_relations", relations, 0, Built(fetch_relations(ns, relations), qb))

ResolveSubgraphRows ==
    \E n \in 0..MaxRows :
        \E absent \in SUBSET (1..n) :
            Record("resolve_subgraph", absent, n, resolve_subgraph(ns, qb, n, absent))

NextGraph ==
    \/ FetchRelationsAny
    \/ TraverseRelationsOp
    \/ ResolveSubgraphRows

SpecGraph == Init /\ [][NextGraph]_vars

(***************************************************************************)
(* C17: the subgraph of a row.                                             *)
(***************************************************************************)
\* resolve_subgraph returned for a NodeSet whose fetched paths have one hop
SingleHopResolved ==
    /\ last.op = "resolve_subgraph"
    /\ last.outcome = "none"
    /\ \A k \in DOMAIN ns.relations_to_fetch : Len(ns.relations_to_fetch[k].path) = 1

\* the fetched relations that matched in row i
Matched(i) ==
    {rel \in Range(ns.relations_to_fetch) : ~(rel.optional /\ i \in last.arg.input)}

\* C17: for a NodeSet whose fetched paths have one hop each, resolve_subgraph
\* returns one object per row, the root node of that row, and has stored on it,
\* for each fetched relation whose columns are not None in the row, the
\* endpoint node of the row under the name of the relation and the
\* relationship object of the row under that name followed by _relationship,
\* and nothing else
C17_SubgraphPerRow ==
    SingleHopResolved =>
       /\ Len(last.ret) = last.arg.db
       /\ \A i \in DOMAIN last.ret :
             /\ last.ret[i].obj = [kind |-> "node", cls |-> ns.source, cell |-> Cell(i, 1)]
             /\ DOMAIN last.ret[i]._relations
                   = UNION {{rel.path[1], rel.path[1] \o "_relationship"} : rel \in Matched(i)}
             /\ \A rel \in Matched(i) :
                   /\ last.ret[i]._relations[rel.path[1]].obj.kind = "node"
                   /\ last.ret[i]._relations[rel.path[1]].obj.cls
                         = Relationships(ns.source_class)[rel.path[1]].node_class
                   /\ last.ret[i]._relations[rel.path[1]].obj.cell.row = i
                   /\ last.ret[i]._relations[rel.path[1] \o "_relationship"].obj.kind = "rel"
                   /\ last.ret[i]._relations[rel.path[1] \o "_relationship"].obj.cell.row = i

\* C17 witness: two rows resolved for two fetched relations, the optional one
\* found in the first row only
C17_Witness ==
    /\ SingleHopResolved
    /\ Len(last.ret) = 2
    /\ DOMAIN last.ret[1]._relations
          = {"orders", "orders_relationship", "friends", "friends_relationship"}
    /\ DOMAIN last.ret[2]._relations = {"friends", "friends_relationship"}

(***************************************************************************)
(* C18: skip and limit of the compiled AST.                                *)
(***************************************************************************)
AbsentOrNatural(x) == ~x.some \/ x.v >= 0

\* C18 as claimed: the skip and the limit of the AST a terminal operation
\* compiles are each absent or a non-negative integer, and in the compilation
\* that follows a slicing [start:stop] the skip is start (an absent skip
\* counting as 0) and the limit is stop - start
C18_SliceSkipLimit ==
    [][(last'.op \in TerminalOps /\ last'.calls # <<>>)
       => /\ AbsentOrNatural(qb'.ast.skip)
          /\ AbsentOrNatural(qb'.ast.limit)
          /\ (/\ last.op = "slice"
              /\ last.arg.input[1].some
              /\ last.arg.input[2].some
              /\ last'.op \in {"all", "len"})
             => /\ qb'.ast.skip.v = last.arg.input[1].v
                /\ qb'.ast.limit = Some(last.arg.input[2].v - last.arg.input[1].v)]_vars

(***************************************************************************)
(* SpecTraversal: a Traversal from Customer.nodes, its source filtered     *)
(* with keywords, match() called with keywords on the properties of the    *)
(* relationship model, and the traversal compiled by a QueryBuilder.  ns   *)
(* is the traversal, the node_set of the builder.                          *)
(***************************************************************************)
SourceKwargs ==
    {<<LeafNull>>, <<Leaf("name", "isnull", BoolV(TRUE))>>, <<LeafAge>>,
     <<LeafName, LeafNull>>}

MatchKwargs ==
    {<<>>, <<Leaf("price", "isnull", BoolV(TRUE))>>,
     <<Leaf("note", "isnull", BoolV(FALSE))>>, <<Leaf("price", "", IntV(5))>>,
     <<Leaf("price", "gte", IntV(5)), Leaf("note", "isnull", BoolV(TRUE))>>,
     <<Leaf("price", "gt", IntV(5)), Leaf("price", "lt", IntV(7))>>,
     <<Leaf("price", "isnull", IntV(5))>>}

InitTraversal ==
    /\ ns \in {Traversal(NodeSet("Customer"), name, Relationships("Customer")[name]) :
                 name \in {"orders", "friends"}}
    /\ qb = NoBuilder
    /\ last = NoOp
    /\ todo = <<>>
    /\ steps = 0

\* traversal.source.filter(**kwargs)
SourceFilter ==
    /\ steps < MaxCalls
    /\ \E kwargs \in SourceKwargs :
         /\ ns' = [ns EXCEPT !.source = filter(@, <<>>, kwargs)]
         /\ last' = Op("filter", kwargs, "none", SelfV, <<>>, <<>>)
    /\ steps' = steps + 1
    /\ UNCHANGED <<qb, todo>>

\* traversal.match(**kwargs)
TraversalMatch ==
    /\ steps < MaxCalls
    /\ \E kwargs \in MatchKwargs :
         /\ ns' = match(ns, kwargs).t
         /\ last' = Op("match", kwargs, match(ns, kwargs).err, SelfV, <<>>, <<>>)
    /\ steps' = steps + 1
    /\ UNCHANGED <<qb, todo>>

\* QueryBuilder(traversal).build_ast(): a Traversal has no relations_to_fetch,
\* and build_source hands it to build_traversal
TraversalCompile ==
    /\ last.op # "compile"
    /\ qb' = build_traversal(QueryBuilder(FALSE, FALSE), ns)
    /\ last' = Op("compile", NoneV, qb'.err, NoneV, <<>>, <<>>)
    /\ UNCHANGED <<ns, todo, steps>>

NextTraversal ==
    \/ SourceFilter
    \/ TraversalMatch
    \/ TraversalCompile

SpecTraversal == InitTraversal /\ [][NextTraversal]_vars

\* the items process_filter_args gives for the leaves of a tree, in the
\* order _parse_q_filters visits them
RECURSIVE TreeEntries(_, _)
TreeEntries(q, cls) ==
    Concat([i \in DOMAIN q.children |->
               IF IsQ(q.children[i]) THEN TreeEntries(q.children[i], cls)
               ELSE process_filter_args(cls, <<q.children[i]>>).output])

\* a compiled item: the identifier it is compiled under, its property and
\* its operator
Compiled(ident, entries) ==
    [i \in DOMAIN entries |->
        [ident |-> ident, prop |-> entries[i].prop, operator |-> entries[i].operator]]

\* every item the compilation of the traversal visits: those of the tree of
\* its source under the source's identifier, those of its rows under the
\* identifier of the relationship
CompiledItems(traversal) ==
    Compiled(Lower(Label(traversal.source.source)),
             TreeEntries(traversal.source.q_filters, traversal.source.source_class))
    \o Compiled(create_ident(QueryBuilder(FALSE, FALSE)).ident,
                Concat(traversal.filters))

Binary(items) == SelectSeq(items, LAMBDA x : x.operator \notin _UNARY_OPERATORS)
Unary(items) == SelectSeq(items, LAMBDA x : x.operator \in _UNARY_OPERATORS)

\* the positions of a text where the term of a unary item stands: the
\* property, the operator, and no placeholder after it
UnaryTermAt(text, x) ==
    {i \in 1..(Len(text) - 1) :
        /\ text[i] = T(x.ident \o "." \o x.prop)
        /\ text[i + 1] = T(x.operator)
        /\ (i + 2 <= Len(text) => text[i + 2][1] # "p")}

\* C19: the compilation of a unary item (IS NULL, IS NOT NULL) renders
\* <ident>.<prop> <operator> and leaves the placeholder registry and the
\* parameter table as they were, in the tree of the source and in the rows of
\* match(): after a compilation the registry counts the items with another
\* operator and nothing else, the parameter table has one entry for each of
\* them, and the where statements hold the term of every unary item as many
\* times as it was given.
C19_UnaryNoPlaceholder ==
    (last.op = "compile" /\ qb.err = "none")
    => /\ DOMAIN qb.place_holder_registry =
              {x.ident \o "_" \o x.prop : x \in Range(Binary(CompiledItems(ns)))}
       /\ \A key \in DOMAIN qb.place_holder_registry :
              qb.place_holder_registry[key] =
                  Len(SelectSeq(Binary(CompiledItems(ns)),
                                LAMBDA x : x.ident \o "_" \o x.prop = key))
       /\ Cardinality(DOMAIN qb.query_params) = Len(Binary(CompiledItems(ns)))
       /\ \A x \in Range(Unary(CompiledItems(ns))) :
              Cardinality(UnaryTermAt(Concat(qb.ast.where), x)) =
                  Len(SelectSeq(CompiledItems(ns), LAMBDA y : y = x))

\* a traversal compiled with a unary item and another item in the tree of
\* its source, and a unary item and another item in its rows
C19_Witness ==
    /\ last.op = "compile"
    /\ qb.err = "none"
    /\ \E x \in Range(Unary(CompiledItems(ns))) : x.ident = "customer"
    /\ \E x \in Range(Unary(CompiledItems(ns))) : x.ident = "r1"
    /\ \E x \in Range(Binary(CompiledItems(ns))) : x.ident = "customer"
    /\ \E x \in Range(Binary(CompiledItems(ns))) : x.ident = "r1"

(***************************************************************************)
(* C20: the RETURN clause of the statement a count renders.                *)
(***************************************************************************)
\* the statement of the count just made
CountText == last.calls[Len(last.calls)].text

\* C20 as claimed: whatever the NodeSet holds, annotate() aggregates and
\* registered sub-statements included, the statement rendered by a count has
\* a RETURN clause that consists solely of count(<primary identifier>), and
\* the count returns the integer in the first column of the first row
C20_CountReturnsCount ==
    (last.op = "len" /\ last.calls # <<>>)
    => /\ ReturnItems(CountText) = {"count(customer)"}
       /\ last.ret = IntV(last.arg.db)

(***************************************************************************)
(* C21: the shape tree of a fetch path compiled with subgraph tracking.    *)
(***************************************************************************)
\* the node class a path of relationship names leads to
RECURSIVE ClassAfter(_, _)
ClassAfter(cls, path) ==
    IF path = <<>> THEN cls
    ELSE ClassAfter(Relationships(cls)[Head(path)].node_class, Tail(path))

\* how many of the first k hops of a path have the relationship name and the
\* target class of hop k
HopOccurrence(cls, path, k) ==
    Cardinality({j \in 1..k :
                    /\ path[j] = path[k]
                    /\ ClassAfter(cls, SubSeq(path, 1, j))
                         = ClassAfter(cls, SubSeq(path, 1, k))})

\* the shape-tree node hop k of a path is to have when the identifiers r1,
\* r2, ... before it number idents
ShapeNode(cls, path, k, idents) ==
    [target |-> ClassAfter(cls, SubSeq(path, 1, k)),
     variable_name |-> Lower(Label(ClassAfter(cls, SubSeq(path, 1, k)))) \o "_"
                       \o path[k] \o "_" \o ToString(HopOccurrence(cls, path, k)),
     rel_variable_name |-> "r" \o ToString(idents + k)]

\* C21 as claimed: with subgraph tracking, the compilation of a fetch path of
\* N hops on an empty shape tree succeeds, and the tree then has, for every
\* hop k, a node under the node of hop k-1 with the target class, the node
\* variable and the relationship variable of hop k, and no other node; also
\* when a relationship name occurs at more than one depth of the path
C21_ShapeTree ==
    [][(/\ last'.op = "build_traversal_from_path"
        /\ qb.with_subgraph
        /\ DOMAIN qb.ast.subgraph = {}
        /\ "bogus" \notin Range(Head(todo).path))
       => /\ qb'.err = "none"
          /\ DOMAIN qb'.ast.subgraph =
                {SubSeq(Head(todo).path, 1, k) : k \in 1..Len(Head(todo).path)}
          /\ \A k \in 1..Len(Head(todo).path) :
                qb'.ast.subgraph[SubSeq(Head(todo).path, 1, k)] =
                    ShapeNode(ns.source, Head(todo).path, k, qb.ident_count)]_vars

(***************************************************************************)
(* C22: what a terminal operation leaves of the NodeSet it is called on.   *)
(***************************************************************************)
\* C22 as claimed: get, first, their _or_none variants, indexing with an
\* integer, len, bool, iteration and a containment check leave the filter
\* tree, skip and limit of the NodeSet as they were before the call
C22_TerminalKeepsSpec ==
    [][last'.op \in {"get", "get_or_none", "first", "first_or_none", "getitem",
                     "len", "bool", "iter", "contains"}
       => /\ ns'.q_filters = ns.q_filters
          /\ ns'.skip = ns.skip
          /\ ns'.limit = ns.limit]_vars

(***************************************************************************)
(* C23: where the statement of a containment check tests the identity of   *)
(* the node.  The clauses of a statement apply in the order they are       *)
(* written: a term of WHERE selects among the rows matched, SKIP and LIMIT *)
(* after it cut the rows it selected.                                      *)
(***************************************************************************)
\* the positions of a text where the identity of the primary identifier is
\* compared with a placeholder
IdentityTermAt(text) ==
    {i \in 1..(Len(text) - 2) :
        /\ text[i] = T(get_id_method \o "(customer)")
        /\ text[i + 1] = T("=")
        /\ text[i + 2][1] = "p"}

\* C23 as claimed: the identity equality that a containment check adds is
\* applied to the paginated rows, the rows an iteration of the same NodeSet
\* yields, not before the pagination: in the statement of the check it stands
\* after every SKIP and LIMIT
C23_ContainsPaginated ==
    (last.op = "contains" /\ last.calls # <<>>)
    => /\ IdentityTermAt(CountText) # {}
       /\ \A i \in IdentityTermAt(CountText) :
             \A j \in PositionsOf(CountText, "SKIP") \cup PositionsOf(CountText, "LIMIT") :
                 j < i

(***************************************************************************)
(* C24: the relationships has() records as required and as excluded.       *)
(***************************************************************************)
\* C24 as claimed: after any calls of has, no relationship name is recorded
\* both in must_match and in dont_match, and the where list of a compilation
\* never holds a relationship pattern together with its negation
C24_HasExclusive ==
    /\ Range(ns.must_match) \cap Range(ns.dont_match) = {}
    /\ \A i, j \in DOMAIN qb.ast.where :
          qb.ast.where[j] # <<T("NOT")>> \o qb.ast.where[i]

(***************************************************************************)
(* C25: the where terms that the keywords of one match() call produce.     *)
(***************************************************************************)
\* how many terms on a property of the relationship model the where list of
\* a builder holds
RelationTerms(b, traversal) ==
    Cardinality({i \in DOMAIN Concat(b.ast.where) :
                    \E prop \in DOMAIN Properties(traversal.definition.model) :
                        Concat(b.ast.where)[i] =
                            T(create_ident(QueryBuilder(FALSE, FALSE)).ident
                              \o "." \o prop)})

\* the keywords that take a value: all but isnull
Valued(kwargs) == SelectSeq(kwargs, LAMBDA kw : kw.suffix # "isnull")

\* what a call of match adds to the compilation of the traversal
TermsAdded(before, after, traversal) ==
    RelationTerms(after, traversal) - RelationTerms(before, traversal)

ParamsAdded(before, after) ==
    Cardinality(DOMAIN after.query_params) - Cardinality(DOMAIN before.query_params)

\* C25 as claimed: every keyword given to one call of match() produces one
\* where term of the compiled statement, two keywords on one property with
\* different operators (price__gt, price__lt) included, and each keyword that
\* takes a value is bound to a placeholder of its own
C25_EveryKeywordATerm ==
    [][(last'.op = "match" /\ last'.outcome = "none")
       => /\ TermsAdded(build_traversal(QueryBuilder(FALSE, FALSE), ns),
                        build_traversal(QueryBuilder(FALSE, FALSE), ns'), ns)
               = Len(last'.arg)
          /\ ParamsAdded(build_traversal(QueryBuilder(FALSE, FALSE), ns),
                         build_traversal(QueryBuilder(FALSE, FALSE), ns'))
               = Len(Valued(last'.arg))]_vars

====
